---- MODULE Spec2Model ----
(***************************************************************************)
(* Waypoint-curve navigation engine of the 3D-portfolio scene:             *)
(*   PF_MoveFSM    (scene-3dportfolio/PF_MoveFSM.js, second definition)    *)
(*   PF_ModelDrone (scene-3dportfolio/PF_ModelDrone.js, first definition)  *)
(*   PF_Common     (speed configuration, unnamed/part_009)                 *)
(*                                                                         *)
(* Time is performance.now() in whole milliseconds.  One frame reads one   *)
(* value of the clock.  A 3D curve point is abstracted to one coordinate   *)
(* and every interpolated value is an exact fraction [n, d].               *)
(***************************************************************************)
EXTENDS Integers, Sequences, FiniteSets, TLC

\* ---------------------------------------------------------------- bounds
\* number of points of the flight-path curve (fpath_curve.length)
NumPoints == 4
\* the clock stops advancing at MaxNow milliseconds
MaxNow == 3000
\* milliseconds that may pass between two handlers
Deltas == {250, 500}

\* ---------------------------------------------------------- PF_Common
FPATH_SEGMENT_DURATION_MIN_MS == 200
FPATH_SEGMENT_DURATION_MAX_MS == 1000
FPATH_SEGMENT_SPEED_STEP_MS == 50

\* ----------------------------------------------------- JavaScript values
\* `undefined` held by a number-valued field
undefined == -1000000
\* `undefined` held by a symbol-valued field (prev_state, pending_event)
UNDEF == "undefined"

Min(a, b) == IF a < b THEN a ELSE b
Max(a, b) == IF a > b THEN a ELSE b

\* ------------------------------------------------------------ PF_MoveFSM
HOVERING == "hovering"
FORWARD == "forward"
BACKWARD == "backward"
PF_DirState == {HOVERING, FORWARD, BACKWARD}

GO_FRONT == "go_forward"
GO_BACK == "go_backward"
GO_HOVER == "go_hover"
PF_DirEvent == {GO_FRONT, GO_BACK, GO_HOVER}

\* mutant: the GoHover row of Backward names the wrong destination
PF_DirTransitions_wrong_row ==
    { <<HOVERING, GO_FRONT, FORWARD>>,
      <<HOVERING, GO_BACK, BACKWARD>>,
      <<FORWARD, GO_BACK, BACKWARD>>,
      <<FORWARD, GO_HOVER, HOVERING>>,
      <<BACKWARD, GO_FRONT, FORWARD>>,
      <<BACKWARD, GO_HOVER, FORWARD>> }

\* the transition table, as the set of its (state, event, destination) rows
PF_DirTransitions ==
    { <<HOVERING, GO_FRONT, FORWARD>>,
      <<HOVERING, GO_BACK, BACKWARD>>,
      <<FORWARD, GO_BACK, BACKWARD>>,
      <<FORWARD, GO_HOVER, HOVERING>>,
      <<BACKWARD, GO_FRONT, FORWARD>>,
      <<BACKWARD, GO_HOVER, HOVERING>> }

VARIABLES
    now,                \* performance.now()
    state,              \* PF_MoveFSM.state
    prev_state,         \* PF_MoveFSM.prev_state
    pending_event,      \* PF_MoveFSM.pending_event
    prevTS_sampling,    \* PF_MoveFSM.prevTS_sampling
    duration,           \* PF_Common FPATH_SEGMENT_DURATION_MS
    drone_obj,          \* PF_ModelDrone.drone_obj is defined (model loaded)
    position,           \* drone_obj.position, a fraction [n, d]
    i_target,           \* PF_ModelDrone.i_target
    i_start,
    i_end,
    i_lookat_start,
    i_lookat_end,
    prevTS_forward,
    prevTS_backward,
    elapsed_fw,
    elapsed_bw,
    upd,                \* what the last call of the FSM did: the values
                        \* before it (pre) and right after it (post)
    mobile,             \* PF_MoveFSM.is_mobile_device() at construction
    ini_touch_pos_y,    \* PF_MoveFSM.ini_touch_pos_y
    prev_touch_pos_y,   \* PF_MoveFSM.prev_touch_pos_y
    burst,              \* history: the directional inputs delivered since
                        \* the last frame that ran update_state
    intent,             \* environment: the intent the input layer keeps
                        \* re-sending (UNDEF: any input at any time)
    goal_scroll,        \* PF_MoveFSM.goal_scroll, a fraction [n, d] of pixels
    FPATH_WPS,          \* PF_Common.FPATH_WPS, the configured waypoints
    m_fpath,            \* the PF_ModelFlightPath object
    fsm_robot,          \* the FSM_Robot object of the dragon scene
    r_call,             \* what the last call of the robot FSM did
    screen_fsm,         \* the PF_ScreenFSM object
    s_call,             \* what the last call of the screen FSM did
    m_display,          \* PF_ModelArcade.m_display, a PF_ModelDisplay
    pictures,           \* pictures.pic_index of every waypoint
    loads,              \* the URLs THREE.TextureLoader is loading for
                        \* update_texture, in the order of the requests
    d_call              \* what the last call of the display did

vars == << now, state, prev_state, pending_event, prevTS_sampling, duration,
           drone_obj, position, i_target, i_start, i_end, i_lookat_start,
           i_lookat_end, prevTS_forward, prevTS_backward, elapsed_fw,
           elapsed_bw, upd, mobile, ini_touch_pos_y, prev_touch_pos_y,
           burst, intent, goal_scroll, FPATH_WPS, m_fpath, fsm_robot,
           r_call, screen_fsm, s_call, m_display, pictures, loads, d_call >>

\* the screen FSM, the display of the arcade and its pictures
arcade_vars == << screen_fsm, s_call, m_display, pictures, loads, d_call >>

\* the configuration and the objects the drone navigation never writes
scene_vars == << FPATH_WPS, m_fpath, fsm_robot, r_call, screen_fsm, s_call,
                m_display, pictures, loads, d_call >>

\* the fields only the "touchstart" / "touchmove" listeners write
touch_vars == << mobile, ini_touch_pos_y, prev_touch_pos_y >>

\* the fields of PF_MoveFSM, PF_ModelDrone and PF_Common as one record;
\* ret and cbs collect the value returned by transit and the callbacks of
\* `cbs` it invoked during the current call
self ==
    [ state |-> state, prev_state |-> prev_state,
      pending_event |-> pending_event, duration |-> duration,
      position |-> position, i_target |-> i_target, i_start |-> i_start,
      i_end |-> i_end, i_lookat_start |-> i_lookat_start,
      i_lookat_end |-> i_lookat_end, prevTS_forward |-> prevTS_forward,
      prevTS_backward |-> prevTS_backward, elapsed_fw |-> elapsed_fw,
      elapsed_bw |-> elapsed_bw, goal_scroll |-> goal_scroll,
      ret |-> UNDEF, cbs |-> << >> ]

NoCall == [ op |-> "none" ]
\* the last step was a frame that returned at once: drone_obj undefined
NotReady == [ op |-> "not_ready" ]

\* ------------------------------------------------------------ the curve
I_FIRST == 0
I_SECOND == 1
I_LAST == NumPoints - 1
I_SECOND_LAST == NumPoints - 2

\* fpath_curve[i]: distinct points, unevenly spaced
fpath_curve(i) == i * i + 10 * i

\* three/src/math/MathUtils lerp(x, y, t) = (1 - t) * x + t * y, t = f.n / f.d
lerp(x, y, f) == [ n |-> (f.d - f.n) * x + f.n * y, d |-> f.d ]

\* two fractions denote the same point
SamePoint(p, q) == p.n * q.d = q.n * p.d

\* ------------------------------------------------------------ PF_Common
get_segment_duration(s) == s.duration

\* mutant: the shortened duration is not clamped
set_speed_faster_unclamped(s) ==
    [ s EXCEPT !.duration = s.duration - FPATH_SEGMENT_SPEED_STEP_MS ]

set_speed_faster(s) ==
    [ s EXCEPT !.duration =
        Max(s.duration - FPATH_SEGMENT_SPEED_STEP_MS, FPATH_SEGMENT_DURATION_MIN_MS) ]

\* mutant: the lengthened duration is not clamped
set_speed_slower_unclamped(s) ==
    [ s EXCEPT !.duration = s.duration + FPATH_SEGMENT_SPEED_STEP_MS ]

set_speed_slower(s) ==
    [ s EXCEPT !.duration =
        Min(s.duration + FPATH_SEGMENT_SPEED_STEP_MS, FPATH_SEGMENT_DURATION_MAX_MS) ]

\* the function evaluates the comparison and returns nothing: its value is
\* `undefined`, which the caller's `!` reads as false
is_speed_normal(s) == FALSE

\* -------------------------------------------------------- PF_ModelDrone
\* mutant: compares with the second index
target_is_first_off_by_one(s) == s.i_target = I_SECOND

target_is_first(s) == s.i_target = I_FIRST

\* mutant: compares with the length of the curve
target_is_last_off_by_one(s) == s.i_target = I_LAST + 1

target_is_last(s) == s.i_target = I_LAST

\* mutant: the look-ahead start is clamped to I_LAST like the segment end
update_indices_H_FW_lookat_to_last(s, t) ==
    LET start == s.i_target
        end == start + 1
        la_start == end
        la_end == la_start + 1
    IN  [ s EXCEPT !.i_start = start,
                   !.i_end = Min(end, I_LAST),
                   !.i_lookat_start = Min(la_start, I_LAST),
                   !.i_lookat_end = Min(la_end, I_LAST),
                   !.prevTS_forward = t ]

\* mutant: the end of the look-ahead segment is not clamped to the curve
update_indices_H_FW_lookat_end_unclamped(s, t) ==
    LET start == s.i_target
        end == start + 1
        la_start == end
        la_end == la_start + 1
    IN  [ s EXCEPT !.i_start = start,
                   !.i_end = Min(end, I_LAST),
                   !.i_lookat_start = Min(la_start, I_SECOND_LAST),
                   !.i_lookat_end = la_end,
                   !.prevTS_forward = t ]

update_indices_H_FW(s, t) ==
    LET start == s.i_target
        end == start + 1
        la_start == end
        la_end == la_start + 1
    IN  [ s EXCEPT !.i_start = start,
                   !.i_end = Min(end, I_LAST),
                   !.i_lookat_start = Min(la_start, I_SECOND_LAST),
                   !.i_lookat_end = Min(la_end, I_LAST),
                   !.prevTS_forward = t ]

\* mutant: the segment end is taken in the forward direction
update_indices_H_BW_end_forward(s, t) ==
    LET start == s.i_target
        end == start + 1
        la_start == end
        la_end == la_start - 1
    IN  [ s EXCEPT !.i_start = start,
                   !.i_end = Max(end, I_FIRST),
                   !.i_lookat_start = Max(la_start, I_SECOND),
                   !.i_lookat_end = Max(la_end, I_FIRST),
                   !.prevTS_backward = t ]

update_indices_H_BW(s, t) ==
    LET start == s.i_target
        end == start - 1
        la_start == end
        la_end == la_start - 1
    IN  [ s EXCEPT !.i_start = start,
                   !.i_end = Max(end, I_FIRST),
                   !.i_lookat_start = Max(la_start, I_SECOND),
                   !.i_lookat_end = Max(la_end, I_FIRST),
                   !.prevTS_backward = t ]

\* mutant: the timestamp is reset without compensating the remaining time
update_indices_FW_BW_uncompensated(s, t) ==
    LET target == s.i_target + 1
        start == target
        end == start - 1
        la_start == end
        la_end == la_start - 1
    IN  [ s EXCEPT !.i_target = target,
                   !.i_start = start,
                   !.i_end = Max(end, I_FIRST),
                   !.i_lookat_start = Max(la_start, I_SECOND),
                   !.i_lookat_end = Max(la_end, I_FIRST),
                   !.prevTS_backward = t ]

update_indices_FW_BW(s, t) ==
    LET target == s.i_target + 1
        start == target
        end == start - 1
        la_start == end
        la_end == la_start - 1
        remain == get_segment_duration(s) - s.elapsed_fw
    IN  [ s EXCEPT !.i_target = target,
                   !.i_start = start,
                   !.i_end = Max(end, I_FIRST),
                   !.i_lookat_start = Max(la_start, I_SECOND),
                   !.i_lookat_end = Max(la_end, I_FIRST),
                   !.prevTS_backward = t - remain ]

update_indices_BW_FW(s, t) ==
    LET target == s.i_target - 1
        start == target
        end == start + 1
        la_start == end
        la_end == la_start + 1
        remain == get_segment_duration(s) - s.elapsed_bw
    IN  [ s EXCEPT !.i_target = target,
                   !.i_start = start,
                   !.i_end = Min(end, I_LAST),
                   !.i_lookat_start = Min(la_start, I_SECOND_LAST),
                   !.i_lookat_end = Min(la_end, I_LAST),
                   !.prevTS_forward = t - remain ]

\* the callbacks PF_ModelDrone.set_fsm hands to the state machine
on_hovering_to_forward(s, t) ==
    [ update_indices_H_FW(s, t) EXCEPT !.cbs = Append(@, "on_hovering_to_forward") ]

on_hovering_to_backward(s, t) ==
    [ update_indices_H_BW(s, t) EXCEPT !.cbs = Append(@, "on_hovering_to_backward") ]

on_forward_to_backward(s, t) ==
    [ update_indices_FW_BW(s, t) EXCEPT !.cbs = Append(@, "on_forward_to_backward") ]

on_backward_to_forward(s, t) ==
    [ update_indices_BW_FW(s, t) EXCEPT !.cbs = Append(@, "on_backward_to_forward") ]

on_forward_to_hovering(s) ==
    [ s EXCEPT !.cbs = Append(@, "on_forward_to_hovering") ]

on_backward_to_hovering(s) ==
    [ s EXCEPT !.cbs = Append(@, "on_backward_to_hovering") ]

\* --------------------------------------------------- PF_MoveFSM methods
is_hovering(s) == s.state = HOVERING
is_forward(s) == s.state = FORWARD
is_backward(s) == s.state = BACKWARD
prev_is_hovering(s) == s.prev_state = HOVERING
prev_is_forward(s) == s.prev_state = FORWARD
prev_is_backward(s) == s.prev_state = BACKWARD

\* mutant: a pair without a row keeps the current state as its destination
get_dest_state_defaults_to_current(s, event_) ==
    IF \E r \in PF_DirTransitions : r[1] = s.state /\ r[2] = event_
    THEN (CHOOSE r \in PF_DirTransitions : r[1] = s.state /\ r[2] = event_)[3]
    ELSE s.state

\* destination state of (s.state, event_), or UNDEF when the table has none
get_dest_state(s, event_) ==
    IF \E r \in PF_DirTransitions : r[1] = s.state /\ r[2] = event_
    THEN (CHOOSE r \in PF_DirTransitions : r[1] = s.state /\ r[2] = event_)[3]
    ELSE UNDEF

\* mutant: the action of a reversal is chosen by the new state alone
transit_keyed_by_new_state(s, event_, t) ==
    LET _dest == get_dest_state(s, event_)
        moved == [ s EXCEPT !.state = _dest, !.ret = "true" ]
    IN  IF _dest = UNDEF
        THEN [ s EXCEPT !.ret = "false" ]
        ELSE IF _dest = HOVERING
             THEN IF prev_is_forward(moved) THEN on_forward_to_hovering(moved)
                  ELSE IF prev_is_backward(moved) THEN on_backward_to_hovering(moved)
                  ELSE moved
        ELSE IF _dest = FORWARD THEN on_hovering_to_forward(moved, t)
        ELSE on_hovering_to_backward(moved, t)

transit(s, event_, t) ==
    LET _dest == get_dest_state(s, event_)
        moved == [ s EXCEPT !.state = _dest, !.ret = "true" ]
    IN  IF _dest = UNDEF
        THEN [ s EXCEPT !.ret = "false" ]
        ELSE IF _dest = HOVERING
             THEN IF prev_is_forward(moved) THEN on_forward_to_hovering(moved)
                  ELSE IF prev_is_backward(moved) THEN on_backward_to_hovering(moved)
                  ELSE moved
        ELSE IF _dest = FORWARD
             THEN IF prev_is_backward(moved) THEN on_backward_to_forward(moved, t)
                  ELSE IF prev_is_hovering(moved) THEN on_hovering_to_forward(moved, t)
                  ELSE moved
        ELSE IF prev_is_forward(moved) THEN on_forward_to_backward(moved, t)
             ELSE IF prev_is_hovering(moved) THEN on_hovering_to_backward(moved, t)
             ELSE moved

\* mutant: the boundary guards target_is_last / target_is_first are missing
handle_event_unguarded(s, t) ==
    IF s.pending_event = GO_HOVER THEN transit(s, GO_HOVER, t)
    ELSE IF s.pending_event = GO_FRONT
         THEN IF is_forward(s) THEN set_speed_faster(s)
              ELSE transit(s, GO_FRONT, t)
    ELSE IF s.pending_event = GO_BACK
         THEN IF is_backward(s) THEN set_speed_faster(s)
              ELSE transit(s, GO_BACK, t)
    ELSE s

\* mutant: GoHover is only handled while flying forward
handle_event_hover_from_forward_only(s, t) ==
    IF s.pending_event = GO_HOVER
    THEN IF is_forward(s) THEN transit(s, GO_HOVER, t) ELSE s
    ELSE IF s.pending_event = GO_FRONT
         THEN IF is_forward(s) THEN set_speed_faster(s)
              ELSE IF ~target_is_last(s) THEN transit(s, GO_FRONT, t)
              ELSE s
    ELSE IF s.pending_event = GO_BACK
         THEN IF is_backward(s) THEN set_speed_faster(s)
              ELSE IF ~target_is_first(s) THEN transit(s, GO_BACK, t)
              ELSE s
    ELSE s

\* mutant: a speed-up request also restarts the clock of the segment
handle_event_speed_up_restarts_segment(s, t) ==
    IF s.pending_event = GO_HOVER THEN transit(s, GO_HOVER, t)
    ELSE IF s.pending_event = GO_FRONT
         THEN IF is_forward(s)
              THEN [ set_speed_faster(s) EXCEPT !.prevTS_forward = t ]
              ELSE IF ~target_is_last(s) THEN transit(s, GO_FRONT, t)
              ELSE s
    ELSE IF s.pending_event = GO_BACK
         THEN IF is_backward(s)
              THEN [ set_speed_faster(s) EXCEPT !.prevTS_backward = t ]
              ELSE IF ~target_is_first(s) THEN transit(s, GO_BACK, t)
              ELSE s
    ELSE s

\* step 3 of update_state: the pending event against the current state
handle_event(s, t) ==
    IF s.pending_event = GO_HOVER THEN transit(s, GO_HOVER, t)
    ELSE IF s.pending_event = GO_FRONT
         THEN IF is_forward(s) THEN set_speed_faster(s)
              ELSE IF ~target_is_last(s) THEN transit(s, GO_FRONT, t)
              ELSE s
    ELSE IF s.pending_event = GO_BACK
         THEN IF is_backward(s) THEN set_speed_faster(s)
              ELSE IF ~target_is_first(s) THEN transit(s, GO_BACK, t)
              ELSE s
    ELSE s

\* mutant: an event that caused no transition stays in the slot
update_state_keeps_unused_event(s, t) ==
    LET s1 == [ s EXCEPT !.prev_state = s.state ]
        s2 == IF is_hovering(s1) /\ ~is_speed_normal(s1)
              THEN set_speed_slower(s1) ELSE s1
        h == handle_event(s2, t)
    IN  IF s2.pending_event # UNDEF
        THEN IF h.ret = "true" THEN [ h EXCEPT !.pending_event = UNDEF ] ELSE h
        ELSE s2

update_state(s, t) ==
    LET s1 == [ s EXCEPT !.prev_state = s.state ]
        s2 == IF is_hovering(s1) /\ ~is_speed_normal(s1)
              THEN set_speed_slower(s1) ELSE s1
    IN  IF s2.pending_event # UNDEF
        THEN [ handle_event(s2, t) EXCEPT !.pending_event = UNDEF ]
        ELSE s2

trigger_go_hover(s) == [ s EXCEPT !.pending_event = GO_HOVER ]

\* mutant: the sampling period is not checked
check_accept_event_without_sampling(t) ==
    pending_event = UNDEF

\* true when the input handler may turn the event into a pending event
check_accept_event(t) ==
    /\ pending_event = UNDEF
    /\ ~ ((t - prevTS_sampling) * 60 < 1000)      \* sampling_period_ms = 1000 / 60

\* ------------------------------------------- PF_ModelDrone interpolation
\* Math.min(elapsed / duration, 1.0) as a fraction
factor(elapsed, dur) == [ n |-> Min(elapsed, dur), d |-> dur ]

\* mutant: the factor is computed with the default duration
get_interpolation_FW_default_duration(s, t) ==
    LET e == t - s.prevTS_forward
    IN  [ self |-> [ s EXCEPT !.elapsed_fw = e ],
          i |-> factor(e, FPATH_SEGMENT_DURATION_MAX_MS) ]

get_interpolation_FW(s, t) ==
    LET e == t - s.prevTS_forward
    IN  [ self |-> [ s EXCEPT !.elapsed_fw = e ],
          i |-> factor(e, get_segment_duration(s)) ]

get_interpolation_BW(s, t) ==
    LET e == t - s.prevTS_backward
    IN  [ self |-> [ s EXCEPT !.elapsed_bw = e ],
          i |-> factor(e, get_segment_duration(s)) ]

interpolation_completed(i_) == i_.n >= i_.d

move_to_forward_point_interpolated(s, i_fw) ==
    [ s EXCEPT !.position = lerp(fpath_curve(s.i_start), fpath_curve(s.i_end), i_fw) ]

\* mutant: interpolates from the previous point towards the current one
move_to_backward_point_interpolated_swapped(s, i_bw) ==
    [ s EXCEPT !.position = lerp(fpath_curve(s.i_end), fpath_curve(s.i_start), i_bw) ]

move_to_backward_point_interpolated(s, i_bw) ==
    [ s EXCEPT !.position = lerp(fpath_curve(s.i_start), fpath_curve(s.i_end), i_bw) ]

\* ----------------------------------------------- PF_MoveFSM page scroll
\* parseInt of the CSS property --container-html-max-height-px
CONTAINER_HTML_HEIGHT_MAX_PX == 8000
\* FPATH_WPS.length * 20
FPATH_SPLINE_NUM_SEGMENTS == Len(FPATH_WPS) * 20
\* Math.floor(CONTAINER_HTML_HEIGHT_MAX_PX / FPATH_SPLINE_NUM_SEGMENTS)
PX_PER_SEGMENT == CONTAINER_HTML_HEIGHT_MAX_PX \div FPATH_SPLINE_NUM_SEGMENTS
TOTAL_POINTS3D == FPATH_SPLINE_NUM_SEGMENTS + 1

\* mutant: the section is subtracted while moving forward
scrollup_page_on_drone_fw_subtracts(s, i_target_, target_interp_elapsed) ==
    LET page_scroll == (i_target_ * CONTAINER_HTML_HEIGHT_MAX_PX) \div TOTAL_POINTS3D
    IN  [ s EXCEPT !.goal_scroll =
            [ n |-> page_scroll * target_interp_elapsed.d
                      - target_interp_elapsed.n * PX_PER_SEGMENT,
              d |-> target_interp_elapsed.d ] ]

\* goal_scroll = page_scroll + section_scroll, with
\* page_scroll = Math.floor(i_target / TOTAL_POINTS3D * CONTAINER_HTML_HEIGHT_MAX_PX)
\* and section_scroll = target_interp_elapsed * PX_PER_SEGMENT
scrollup_page_on_drone_fw(s, i_target_, target_interp_elapsed) ==
    LET page_scroll == (i_target_ * CONTAINER_HTML_HEIGHT_MAX_PX) \div TOTAL_POINTS3D
    IN  [ s EXCEPT !.goal_scroll =
            [ n |-> page_scroll * target_interp_elapsed.d
                      + target_interp_elapsed.n * PX_PER_SEGMENT,
              d |-> target_interp_elapsed.d ] ]

\* goal_scroll = page_scroll - section_scroll, page_scroll not rounded
scrolldown_page_on_drone_bw(s, i_target_, target_interp_elapsed) ==
    [ s EXCEPT !.goal_scroll =
        [ n |-> i_target_ * CONTAINER_HTML_HEIGHT_MAX_PX * target_interp_elapsed.d
                  - target_interp_elapsed.n * PX_PER_SEGMENT * TOTAL_POINTS3D,
          d |-> TOTAL_POINTS3D * target_interp_elapsed.d ] ]

\* the result of lerp on an undefined operand, and any finite number
NaN == "NaN"
Finite == "finite"

\* the position PF_MoveFSM.scrollend_smooth_on_drone_hovering moves the page
\* towards: scrollTop !== undefined holds for every scrollTop, and
\* lerp(scrollTop, undefined, 0.08) is NaN; with a goal that is a number the
\* page is left at the goal or scrolled to a number between scrollTop and it
scrollend_smooth_on_drone_hovering(s) ==
    IF s.goal_scroll.d = 0 THEN NaN ELSE Finite

\* mutant: a completed forward segment does not raise GoHover
move_step_completion_without_go_hover(s, t) ==
    IF is_hovering(s) THEN s
    ELSE IF is_forward(s)
         THEN IF ~target_is_last(s)
              THEN LET g == get_interpolation_FW(s, t)
                       p == scrollup_page_on_drone_fw(g.self, s.i_target, g.i)
                   IN  IF interpolation_completed(g.i)
                       THEN [ p EXCEPT !.i_target = @ + 1 ]
                       ELSE move_to_forward_point_interpolated(p, g.i)
              ELSE s
    ELSE IF ~target_is_first(s)
         THEN LET g == get_interpolation_BW(s, t)
                  p == scrolldown_page_on_drone_bw(g.self, s.i_target, g.i)
              IN  IF interpolation_completed(g.i)
                  THEN [ trigger_go_hover(p) EXCEPT !.i_target = @ - 1 ]
                  ELSE move_to_backward_point_interpolated(p, g.i)
         ELSE s

\* move_interpolated after its call of update_state
move_step(s, t) ==
    IF is_hovering(s) THEN s
    ELSE IF is_forward(s)
         THEN IF ~target_is_last(s)
              THEN LET g == get_interpolation_FW(s, t)
                       p == scrollup_page_on_drone_fw(g.self, s.i_target, g.i)
                   IN  IF interpolation_completed(g.i)
                       THEN [ trigger_go_hover(p) EXCEPT !.i_target = @ + 1 ]
                       ELSE move_to_forward_point_interpolated(p, g.i)
              ELSE s
    ELSE IF ~target_is_first(s)
         THEN LET g == get_interpolation_BW(s, t)
                  p == scrolldown_page_on_drone_bw(g.self, s.i_target, g.i)
              IN  IF interpolation_completed(g.i)
                  THEN [ trigger_go_hover(p) EXCEPT !.i_target = @ - 1 ]
                  ELSE move_to_backward_point_interpolated(p, g.i)
         ELSE s

\* --------------------------------------------------- PF_ModelFlightPath
\* a JavaScript array field: undefined, null, or an array of `length`
\* elements (the elements pushed are named by the operators below)
NoArray == [ defined |-> FALSE, null |-> FALSE ]
NullArray == [ defined |-> FALSE, null |-> TRUE ]
Array(length_) == [ defined |-> TRUE, null |-> FALSE, length |-> length_ ]

\* PF_Common.FPATH_WPS as the repository configures it
FPATH_WPS_configured == << "VALENCIA", "HELSINKI", "ODENSE", "OSLO" >>

\* three control points (altitude, ground, altitude) are pushed for every
\* waypoint of PF_Common.FPATH_WPS
get_waypoints == Array(3 * Len(FPATH_WPS))

\* the outcome of the call and the spline_points3D of its result: undefined
\* is returned when this.waypoints === undefined; otherwise one point is
\* pushed for every i = 0 .. FPATH_SPLINE_NUM_SEGMENTS - 1, the point of the
\* Catmull-Rom curve through this.waypoints at
\* t = i / FPATH_SPLINE_NUM_SEGMENTS. A null this.waypoints passes the test
\* and is only read by getPoint inside the loop, which throws a TypeError
\* reading its length: with no segment the loop does not run and an empty
\* array is returned
get_spline_points_and_colors(fp) ==
    IF ~fp.waypoints.defined /\ ~fp.waypoints.null
    THEN [ outcome |-> "undefined", spline_points3D |-> NoArray ]
    ELSE IF fp.waypoints.null /\ FPATH_SPLINE_NUM_SEGMENTS > 0
    THEN [ outcome |-> "TypeError", spline_points3D |-> NoArray ]
    ELSE [ outcome |-> "returned",
           spline_points3D |-> Array(FPATH_SPLINE_NUM_SEGMENTS) ]

\* get_geometry saves the points; a TypeError thrown by the call, or by
\* reading a property of an undefined _spline, leaves the object as it was
get_geometry(fp) ==
    LET _spline == get_spline_points_and_colors(fp)
    IN  IF _spline.outcome = "returned"
        THEN [ fp EXCEPT !.spline_points3D = _spline.spline_points3D ]
        ELSE fp

\* the constructor: get_waypoints, then GPT_Model.call(this) -> get_geometry
PF_ModelFlightPath ==
    get_geometry([ waypoints |-> get_waypoints,
                   spline_points3D |-> NoArray ])

\* ------------------------------------------------------------- FSM_Robot
IDLE == "idle"
LOADING_BULLET == "loading_bullet"
BULLET_TRAVELING == "bullet_traveling"
HIT == "hit"
NO_HIT == "no_hit"

SHOOT_STARTED == "shoot_started"
SHOOT_ENDED == "shoot_ended"
BULLET_COLLIDED == "bullet_collided"
END_OF_TRAJECTORY == "end_of_trajectory"
RESET == "reset"
R_Events == { SHOOT_STARTED, SHOOT_ENDED, BULLET_COLLIDED, END_OF_TRAJECTORY,
              RESET }

\* Common.FSM_DURATION_*_MS of the dragon scene
FSM_DURATION_LOADING_BULLET_MS == 500
FSM_DURATION_BULLET_TRAVELLING_MS == 1000
FSM_DURATION_RESET_MS == 500

\* mutant: shoot_started is also allowed while the bullet is loading
R_transitions_shoot_while_loading ==
    { <<IDLE, SHOOT_STARTED, LOADING_BULLET>>,
      <<LOADING_BULLET, SHOOT_STARTED, LOADING_BULLET>>,
      <<LOADING_BULLET, SHOOT_ENDED, BULLET_TRAVELING>>,
      <<BULLET_TRAVELING, BULLET_COLLIDED, HIT>>,
      <<BULLET_TRAVELING, END_OF_TRAJECTORY, NO_HIT>>,
      <<HIT, RESET, IDLE>>,
      <<NO_HIT, RESET, IDLE>> }

\* this.transitions, as the set of its (state, event, destination) rows
R_transitions ==
    { <<IDLE, SHOOT_STARTED, LOADING_BULLET>>,
      <<LOADING_BULLET, SHOOT_ENDED, BULLET_TRAVELING>>,
      <<BULLET_TRAVELING, BULLET_COLLIDED, HIT>>,
      <<BULLET_TRAVELING, END_OF_TRAJECTORY, NO_HIT>>,
      <<HIT, RESET, IDLE>>,
      <<NO_HIT, RESET, IDLE>> }

\* the object the constructor leaves: the timer stamps are not set yet
FSM_Robot ==
    [ state |-> IDLE, prev_state |-> UNDEF,
      loading_bullet_start |-> undefined,
      bullet_traveling_start |-> undefined,
      reset_fsm_start |-> undefined ]

\* the destination state, or undefined (every state has a row in the table)
R_get_dest_state(r, event_) ==
    LET rows == { row \in R_transitions : row[1] = r.state /\ row[2] = event_ }
    IN  IF rows = {} THEN UNDEF ELSE (CHOOSE row \in rows : TRUE)[3]

\* mutant: entering BULLET_TRAVELING does not start its timer
R_transit_without_travel_timer(r, event_, t) ==
    LET _dest == R_get_dest_state(r, event_)
    IN  IF _dest # UNDEF
        THEN LET r1 == [ r EXCEPT !.state = _dest ]
             IN  [ self |->
                     CASE _dest = IDLE ->
                            [ r1 EXCEPT !.reset_fsm_start = undefined ]
                       [] _dest = LOADING_BULLET ->
                            [ r1 EXCEPT !.loading_bullet_start = t ]
                       [] _dest = BULLET_TRAVELING ->
                            [ r1 EXCEPT !.loading_bullet_start = undefined ]
                       [] OTHER ->
                            [ r1 EXCEPT !.bullet_traveling_start = undefined,
                                        !.reset_fsm_start = t ],
                   ret |-> TRUE ]
        ELSE [ self |-> r, ret |-> FALSE ]

\* mutant: returning to IDLE leaves the stamp of the reset timer in place
R_transit_keeps_reset_stamp(r, event_, t) ==
    LET _dest == R_get_dest_state(r, event_)
    IN  IF _dest # UNDEF
        THEN LET r1 == [ r EXCEPT !.state = _dest ]
             IN  [ self |->
                     CASE _dest = IDLE -> r1
                       [] _dest = LOADING_BULLET ->
                            [ r1 EXCEPT !.loading_bullet_start = t ]
                       [] _dest = BULLET_TRAVELING ->
                            [ r1 EXCEPT !.loading_bullet_start = undefined,
                                        !.bullet_traveling_start = t ]
                       [] OTHER ->
                            [ r1 EXCEPT !.bullet_traveling_start = undefined,
                                        !.reset_fsm_start = t ],
                   ret |-> TRUE ]
        ELSE [ self |-> r, ret |-> FALSE ]

\* FSM_Robot.transit at performance.now() = t: the object after the call and
\* the value returned
R_transit(r, event_, t) ==
    LET _dest == R_get_dest_state(r, event_)
    IN  IF _dest # UNDEF
        THEN LET r1 == [ r EXCEPT !.state = _dest ]
             IN  [ self |->
                     CASE _dest = IDLE ->
                            [ r1 EXCEPT !.reset_fsm_start = undefined ]
                       [] _dest = LOADING_BULLET ->
                            [ r1 EXCEPT !.loading_bullet_start = t ]
                       [] _dest = BULLET_TRAVELING ->
                            [ r1 EXCEPT !.loading_bullet_start = undefined,
                                        !.bullet_traveling_start = t ]
                       [] OTHER ->
                            [ r1 EXCEPT !.bullet_traveling_start = undefined,
                                        !.reset_fsm_start = t ],
                   ret |-> TRUE ]
        ELSE [ self |-> r, ret |-> FALSE ]

has_expired(r, rstate_, start_ts_, duration_ms_, t) ==
    IF r.state # rstate_ THEN FALSE
    ELSE IF start_ts_ = undefined THEN FALSE
    ELSE t - start_ts_ >= duration_ms_

have_expired(r, rstate_, start_ts_, duration_ms_, t) ==
    IF r.state \notin rstate_ THEN FALSE
    ELSE IF start_ts_ = undefined THEN FALSE
    ELSE t - start_ts_ >= duration_ms_

\* mutant: in BULLET_TRAVELING the collision is looked at before the timer
R_update_state_collision_first(r, t, bullet_collided) ==
    LET r1 == [ r EXCEPT !.prev_state = r.state ]
    IN  CASE r1.state = IDLE -> r1
          [] r1.state = LOADING_BULLET ->
               IF has_expired(r1, LOADING_BULLET, r1.loading_bullet_start,
                              FSM_DURATION_LOADING_BULLET_MS, t)
               THEN R_transit(r1, SHOOT_ENDED, t).self
               ELSE r1
          [] r1.state = BULLET_TRAVELING ->
               IF bullet_collided
               THEN R_transit(r1, BULLET_COLLIDED, t).self
               ELSE IF has_expired(r1, BULLET_TRAVELING, r1.bullet_traveling_start,
                                   FSM_DURATION_BULLET_TRAVELLING_MS, t)
                    THEN R_transit(r1, END_OF_TRAJECTORY, t).self
                    ELSE r1
          [] OTHER ->
               IF have_expired(r1, { HIT, NO_HIT }, r1.reset_fsm_start,
                               FSM_DURATION_RESET_MS, t)
               THEN R_transit(r1, RESET, t).self
               ELSE r1

\* FSM_Robot.update_state at performance.now() = t, with the value
\* this.cbs.bullet_collided() returns when it is called
R_update_state(r, t, bullet_collided) ==
    LET r1 == [ r EXCEPT !.prev_state = r.state ]
    IN  CASE r1.state = IDLE -> r1
          [] r1.state = LOADING_BULLET ->
               IF has_expired(r1, LOADING_BULLET, r1.loading_bullet_start,
                              FSM_DURATION_LOADING_BULLET_MS, t)
               THEN R_transit(r1, SHOOT_ENDED, t).self
               ELSE r1
          [] r1.state = BULLET_TRAVELING ->
               IF has_expired(r1, BULLET_TRAVELING, r1.bullet_traveling_start,
                              FSM_DURATION_BULLET_TRAVELLING_MS, t)
               THEN R_transit(r1, END_OF_TRAJECTORY, t).self
               ELSE IF bullet_collided
                    THEN R_transit(r1, BULLET_COLLIDED, t).self
                    ELSE r1
          [] OTHER ->
               IF have_expired(r1, { HIT, NO_HIT }, r1.reset_fsm_start,
                               FSM_DURATION_RESET_MS, t)
               THEN R_transit(r1, RESET, t).self
               ELSE r1

\* ---------------------------------------------------------- PF_ScreenFSM
SHOWING == "showing_image"
DISPOSING == "disposing_prev"
DISPOSED == "disposed_prev"
LOADING == "loading_new"
LOADED == "loaded_new"
PF_ScreenState == { SHOWING, DISPOSING, DISPOSED, LOADING, LOADED }

DISPOSE_START == "dispose_start"
DISPOSE_END == "dispose_end"
LOAD_START == "load_start"
LOAD_END == "load_end"
SHOW == "show"
PF_ScreenEvent == { DISPOSE_START, DISPOSE_END, LOAD_START, LOAD_END, SHOW }

\* the transition table, as the set of its (state, event, destination) rows
PF_ScreenTransitions ==
    { <<SHOWING, DISPOSE_START, DISPOSING>>,
      <<DISPOSING, DISPOSE_END, DISPOSED>>,
      <<DISPOSED, LOAD_START, LOADING>>,
      <<LOADING, LOAD_END, LOADED>>,
      <<LOADED, SHOW, SHOWING>> }

\* the object the constructor leaves; pending_event is not assigned and
\* reads as undefined
PF_ScreenFSM ==
    [ state |-> SHOWING, prev_state |-> UNDEF, pending_event |-> UNDEF ]

\* the destination state, or undefined (every state has a row in the table)
S_get_dest_state(f, event_) ==
    LET rows == { row \in PF_ScreenTransitions :
                    row[1] = f.state /\ row[2] = event_ }
    IN  IF rows = {} THEN UNDEF ELSE (CHOOSE row \in rows : TRUE)[3]

\* PF_ScreenFSM.transit: the object after the call, the value returned and
\* the callbacks of this.cbs invoked, in order
S_transit(f, event_) ==
    LET _dest == S_get_dest_state(f, event_)
    IN  IF _dest = UNDEF
        THEN [ self |-> f, ret |-> FALSE, cbs |-> << >> ]
        ELSE [ self |-> [ f EXCEPT !.state = _dest ],
               ret |-> TRUE,
               cbs |->
                 CASE _dest = SHOWING ->
                        IF f.prev_state = LOADED
                        THEN << "on_loaded_to_showing" >> ELSE << >>
                   [] _dest = DISPOSING ->
                        IF f.prev_state = SHOWING
                        THEN << "on_showing_to_disposing" >> ELSE << >>
                   [] _dest = DISPOSED ->
                        IF f.prev_state = DISPOSING
                        THEN << "on_disposing_to_disposed" >> ELSE << >>
                   [] _dest = LOADING ->
                        IF f.prev_state = DISPOSED
                        THEN << "on_disposed_to_loading" >> ELSE << >>
                   [] OTHER ->
                        IF f.prev_state = LOADING
                        THEN << "on_loading_to_loaded" >> ELSE << >> ]

\* PF_ScreenFSM.update_state: the object after the frame and the callbacks
\* invoked
S_update_state(f) ==
    LET f1 == [ f EXCEPT !.prev_state = f.state ]
    IN  IF f1.pending_event # UNDEF
        THEN LET r == S_transit(f1, f1.pending_event)
             IN  [ self |-> [ r.self EXCEPT !.pending_event = UNDEF ],
                   cbs |-> r.cbs ]
        ELSE [ self |-> f1, cbs |-> << >> ]

\* ------------------------------------------------------- PF_ModelDisplay
\* PF_Common.URL_DISPLAY_TEMPLATE_TEXTURE; the URLs of the pictures are the
\* positive numbers picture_url gives
URL_DISPLAY_TEMPLATE_TEXTURE == 0

\* paths.length of the pictures of every waypoint
NumPaths == 3

\* the indices of PF_Common.FPATH_WPS
WpIndices == 0 .. Len(FPATH_WPS_configured) - 1

\* PF_Common.FPATH_WPS[wp_index].pictures.paths[pic_index], undefined past
\* the ends of the array
picture_url(wp_index, pic_index) ==
    IF pic_index >= 0 /\ pic_index < NumPaths
    THEN 10 * (wp_index + 1) + pic_index
    ELSE undefined

\* pictures.pic_index of every waypoint as the configuration gives it
PicturesConfigured == [ wp_index \in WpIndices |-> 0 ]

\* the object the constructor leaves: get_display_mesh loads the template
\* texture and attaches it to the material; texture is this.texture and map
\* is this.mesh.material.map
PF_ModelDisplay ==
    [ is_on |-> FALSE, last_img_url |-> undefined, loading_texture |-> FALSE,
      texture |-> URL_DISPLAY_TEMPLATE_TEXTURE,
      map |-> URL_DISPLAY_TEMPLATE_TEXTURE ]

check_is_on(d) == d.is_on

switch_on(d) == [ d EXCEPT !.is_on = TRUE ]

switch_off(d) ==
    [ d EXCEPT !.is_on = FALSE,
               !.texture = URL_DISPLAY_TEMPLATE_TEXTURE,
               !.map = URL_DISPLAY_TEMPLATE_TEXTURE ]

set_next_image_index(ps, wp_index) ==
    IF ps[wp_index] < NumPaths - 1
    THEN [ ps EXCEPT ![wp_index] = @ + 1 ]
    ELSE ps

set_prev_image_index(ps, wp_index) ==
    IF ps[wp_index] > 1
    THEN [ ps EXCEPT ![wp_index] = @ - 1 ]
    ELSE ps

get_current_image_url(ps, wp_index) == picture_url(wp_index, ps[wp_index])

\* PF_ModelDisplay.update_texture: the flag is raised and the loader holds one
\* more request, whose callbacks run later
update_texture(d, l, url) ==
    [ self |-> [ d EXCEPT !.loading_texture = TRUE ],
      loads |-> Append(l, url) ]

\* mutant: a load is started although one is in flight
show_picture_without_loading_guard(d, l, ps, wp_index) ==
    LET url == get_current_image_url(ps, wp_index)
    IN  IF d.last_img_url = url
        THEN [ self |-> d, loads |-> l ]
        ELSE update_texture(d, l, url)

\* PF_ModelDisplay.show_picture: the display and the requests of the loader
\* after the call
show_picture(d, l, ps, wp_index) ==
    LET url == get_current_image_url(ps, wp_index)
    IN  IF d.last_img_url = url
        THEN [ self |-> d, loads |-> l ]
        ELSE IF ~d.loading_texture
             THEN update_texture(d, l, url)
             ELSE [ self |-> d, loads |-> l ]

\* the last statements of center_texture: the texture is put on the mesh
center_texture(d) == [ d EXCEPT !.map = d.texture ]

\* the callbacks update_texture hands to the loader for url
on_loaded_sequence(d, url) ==
    [ center_texture([ d EXCEPT !.texture = url ])
        EXCEPT !.loading_texture = FALSE, !.last_img_url = url ]

on_error(d) == [ d EXCEPT !.loading_texture = FALSE ]

\* PF_ModelArcade.set_display_on_or_off; close is
\* dist.length() < PF_Common.ARCADE_THRESHOLD_DISTANCE_TO_SWITCH_ON_OFF
set_display_on_or_off(d, close) ==
    IF close
    THEN IF ~check_is_on(d) THEN switch_on(d) ELSE d
    ELSE IF check_is_on(d) THEN switch_off(d) ELSE d

\* PF_ModelArcade.show_pictures_when_close_to_screen
show_pictures_when_close_to_screen(d, l, ps, close, wp_index) ==
    LET d1 == set_display_on_or_off(d, close)
    IN  IF check_is_on(d1)
        THEN show_picture(d1, l, ps, wp_index)
        ELSE [ self |-> d1, loads |-> l ]

\* the arcade as the navigation finds it: the screen FSM and the display are
\* constructed, no picture is being loaded
ArcadeBuilt ==
    /\ screen_fsm = PF_ScreenFSM
    /\ s_call = NoCall
    /\ m_display = PF_ModelDisplay
    /\ pictures = PicturesConfigured
    /\ loads = << >>
    /\ d_call = NoCall

\* the scene as the navigation finds it: the flight path is built from the
\* configured waypoints and the robot of the dragon scene is idle
SceneBuilt ==
    /\ FPATH_WPS = FPATH_WPS_configured
    /\ m_fpath = PF_ModelFlightPath
    /\ fsm_robot = FSM_Robot
    /\ r_call = NoCall
    /\ ArcadeBuilt

\* -------------------------------------------------------------- actions
Store(s) ==
    /\ state' = s.state
    /\ prev_state' = s.prev_state
    /\ pending_event' = s.pending_event
    /\ duration' = s.duration
    /\ position' = s.position
    /\ i_target' = s.i_target
    /\ i_start' = s.i_start
    /\ i_end' = s.i_end
    /\ i_lookat_start' = s.i_lookat_start
    /\ i_lookat_end' = s.i_lookat_end
    /\ prevTS_forward' = s.prevTS_forward
    /\ prevTS_backward' = s.prevTS_backward
    /\ elapsed_fw' = s.elapsed_fw
    /\ elapsed_bw' = s.elapsed_bw
    /\ goal_scroll' = s.goal_scroll

\* constructors of PF_ModelDrone (set_fsm) and PF_MoveFSM (set_input_control)
\* on a device for which is_mobile_device() returns is_mobile_device
Constructed(is_mobile_device) ==
    /\ now = 0
    /\ state = HOVERING
    /\ prev_state = UNDEF
    /\ pending_event = UNDEF
    /\ prevTS_sampling = 0
    /\ duration = FPATH_SEGMENT_DURATION_MAX_MS
    /\ drone_obj = FALSE
    /\ position = [ n |-> 0, d |-> 0 ]
    /\ goal_scroll = [ n |-> 0, d |-> 0 ]
    /\ i_target = I_FIRST
    /\ i_start = undefined
    /\ i_end = undefined
    /\ i_lookat_start = undefined
    /\ i_lookat_end = undefined
    /\ prevTS_forward = undefined
    /\ prevTS_backward = undefined
    /\ elapsed_fw = undefined
    /\ elapsed_bw = undefined
    /\ upd = NoCall
    /\ mobile = is_mobile_device
    /\ ini_touch_pos_y = undefined
    /\ prev_touch_pos_y = undefined
    /\ burst = << >>

\* the page on a desktop browser: the "wheel" listener is installed
Init == Constructed(FALSE) /\ SceneBuilt /\ intent = UNDEF

\* time passes between two handlers
Tick ==
    /\ \E d \in Deltas : now + d <= MaxNow /\ now' = now + d
    /\ upd' = NoCall
    /\ UNCHANGED << state, prev_state, pending_event, prevTS_sampling, duration,
                    drone_obj, position, goal_scroll, i_target, i_start, i_end,
                    i_lookat_start, i_lookat_end, prevTS_forward,
                    prevTS_backward, elapsed_fw, elapsed_bw >>
    /\ UNCHANGED touch_vars
    /\ UNCHANGED << burst, intent, scene_vars >>

\* OBJLoader on_load_ok_sequence: setup_drone_and_propellers
load_obj ==
    /\ ~drone_obj
    /\ drone_obj' = TRUE
    /\ position' = [ n |-> fpath_curve(i_target), d |-> 1 ]
    /\ upd' = NoCall
    /\ UNCHANGED << now, state, prev_state, pending_event, prevTS_sampling,
                    duration, goal_scroll, i_target, i_start, i_end,
                    i_lookat_start, i_lookat_end, prevTS_forward,
                    prevTS_backward, elapsed_fw, elapsed_bw >>
    /\ UNCHANGED touch_vars
    /\ UNCHANGED << burst, intent, scene_vars >>

\* mutant: an input replaces an event that has not been consumed yet
wheel_overwrites_pending(deltaY) ==
    /\ IF ~ ((now - prevTS_sampling) * 60 < 1000)
       THEN /\ prevTS_sampling' = now
            /\ pending_event' = IF deltaY > 0 THEN GO_FRONT
                                ELSE IF deltaY < 0 THEN GO_BACK
                                ELSE pending_event
       ELSE UNCHANGED << prevTS_sampling, pending_event >>
    /\ upd' = NoCall
    /\ UNCHANGED << now, state, prev_state, duration, drone_obj, position, goal_scroll,
                    i_target, i_start, i_end, i_lookat_start, i_lookat_end,
                    prevTS_forward, prevTS_backward, elapsed_fw, elapsed_bw >>
    /\ UNCHANGED touch_vars

\* the "wheel" listener of set_handle_input_pc, deltaY the sign of event_.deltaY
wheel(deltaY) ==
    /\ IF check_accept_event(now)
       THEN /\ prevTS_sampling' = now
            /\ pending_event' = IF deltaY > 0 THEN GO_FRONT
                                ELSE IF deltaY < 0 THEN GO_BACK
                                ELSE pending_event
       ELSE UNCHANGED << prevTS_sampling, pending_event >>
    /\ upd' = NoCall
    /\ UNCHANGED << now, state, prev_state, duration, drone_obj, position, goal_scroll,
                    i_target, i_start, i_end, i_lookat_start, i_lookat_end,
                    prevTS_forward, prevTS_backward, elapsed_fw, elapsed_bw >>
    /\ UNCHANGED touch_vars

\* PF_ModelDrone.move_interpolated, called once per rendered frame
\* PF_ModelDrone.move_interpolated without its guard on drone_obj
move_interpolated_without_ready_guard ==
    LET u == update_state(self, now)
        m == move_step(u, now)
    IN  /\ Store(m)
        /\ upd' = [ op |-> IF drone_obj THEN "update_state" ELSE "not_ready",
                    pre |-> self, post |-> u, burst |-> burst,
                    scroll_y |-> IF is_hovering(u)
                                 THEN scrollend_smooth_on_drone_hovering(u)
                                 ELSE UNDEF ]
        /\ burst' = << >>
        /\ UNCHANGED << intent, scene_vars >>
        /\ UNCHANGED << now, prevTS_sampling, drone_obj >>
        /\ UNCHANGED touch_vars

move_interpolated ==
    IF ~drone_obj
    THEN /\ upd' = NotReady
         /\ UNCHANGED << now, state, prev_state, pending_event, prevTS_sampling,
                         duration, drone_obj, position, goal_scroll, i_target, i_start,
                         i_end, i_lookat_start, i_lookat_end, prevTS_forward,
                         prevTS_backward, elapsed_fw, elapsed_bw >>
         /\ UNCHANGED touch_vars
         /\ UNCHANGED << burst, intent, scene_vars >>
    ELSE LET u == update_state(self, now)
             m == move_step(u, now)
         IN  /\ Store(m)
             /\ upd' = [ op |-> "update_state", pre |-> self, post |-> u,
                         burst |-> burst,
                         scroll_y |-> IF is_hovering(u)
                                      THEN scrollend_smooth_on_drone_hovering(u)
                                      ELSE UNDEF ]
             /\ burst' = << >>
             /\ UNCHANGED << intent, scene_vars >>
             /\ UNCHANGED << now, prevTS_sampling, drone_obj >>
             /\ UNCHANGED touch_vars

Next ==
    \/ Tick
    \/ load_obj
    \/ \E deltaY \in {-1, 0, 1} : wheel(deltaY) /\ UNCHANGED << burst, intent, scene_vars >>
    \/ move_interpolated

Spec == Init /\ [][Next]_vars


\* PF_MoveFSM.transit called directly with any event, as its interface allows
transit_call(event_) ==
    LET r == transit(self, event_, now)
    IN  /\ Store(r)
        /\ upd' = [ op |-> "transit", event |-> event_, pre |-> self, post |-> r ]
        /\ UNCHANGED << now, prevTS_sampling, drone_obj >>
        /\ UNCHANGED touch_vars
        /\ UNCHANGED << burst, intent, scene_vars >>

\* the program runs as in Spec, then transit is called once with any event
NextTransit ==
    \/ upd.op # "transit" /\ Next
    \/ upd.op # "transit" /\ \E event_ \in PF_DirEvent : transit_call(event_)

SpecTransit == Init /\ [][NextTransit]_vars

\* --------------------------------------------- input on either device
\* the clock readings of SpecInput: handlers less and more than
\* sampling_period_ms apart, at the start and one segment duration later
InputTimes == {0, 10, 20, 30, 1000, 1010, 1020, 1030}
\* clientY of a touch, and min_delta = window.innerHeight / 40 in the same unit
TouchYs == {0, 1, 3}
min_delta == 1

\* the "touchstart" listener of set_handle_input_mobile
touchstart(clientY) ==
    /\ ini_touch_pos_y' = clientY
    /\ prev_touch_pos_y' = clientY
    /\ upd' = NoCall
    /\ UNCHANGED << now, state, prev_state, pending_event, prevTS_sampling,
                    duration, drone_obj, position, goal_scroll, i_target, i_start, i_end,
                    i_lookat_start, i_lookat_end, prevTS_forward,
                    prevTS_backward, elapsed_fw, elapsed_bw, mobile >>
    /\ UNCHANGED << burst, intent, scene_vars >>

\* scrolling_up of the "touchmove" listener; a comparison with `undefined`
\* is false
touch_scrolling_up(new_pos_y) ==
    ini_touch_pos_y # undefined /\ new_pos_y < ini_touch_pos_y

\* d <= min_delta of the "touchmove" listener; a difference with
\* `undefined` is NaN, and NaN <= min_delta is false
touch_not_enough_delta(new_pos_y) ==
    LET d == IF touch_scrolling_up(new_pos_y)
             THEN prev_touch_pos_y - new_pos_y
             ELSE new_pos_y - prev_touch_pos_y
        d_is_NaN == prev_touch_pos_y = undefined
    IN  ~d_is_NaN /\ d <= min_delta

\* the "touchmove" listener of set_handle_input_mobile
touchmove(new_pos_y) ==
    LET scrolling_up == touch_scrolling_up(new_pos_y)
    IN  /\ IF ~check_accept_event(now)
           THEN UNCHANGED << prevTS_sampling, pending_event, prev_touch_pos_y >>
           ELSE /\ prevTS_sampling' = now
                /\ IF touch_not_enough_delta(new_pos_y)
                   THEN UNCHANGED << pending_event, prev_touch_pos_y >>
                   ELSE /\ prev_touch_pos_y' = new_pos_y
                        /\ pending_event' = IF scrolling_up THEN GO_FRONT ELSE GO_BACK
        /\ upd' = NoCall
        /\ UNCHANGED << now, state, prev_state, duration, drone_obj, position, goal_scroll,
                        i_target, i_start, i_end, i_lookat_start, i_lookat_end,
                        prevTS_forward, prevTS_backward, elapsed_fw, elapsed_bw,
                        mobile, ini_touch_pos_y >>

\* time passes from one clock reading to a later one
TickInput ==
    /\ \E t \in InputTimes : t > now /\ now' = t
    /\ upd' = NoCall
    /\ UNCHANGED << state, prev_state, pending_event, prevTS_sampling, duration,
                    drone_obj, position, goal_scroll, i_target, i_start, i_end,
                    i_lookat_start, i_lookat_end, prevTS_forward,
                    prevTS_backward, elapsed_fw, elapsed_bw >>
    /\ UNCHANGED touch_vars
    /\ UNCHANGED << burst, intent, scene_vars >>

\* at most MaxBurst inputs are delivered between two frames
MaxBurst == 3

\* the history after an input of direction event_ (UNDEF: no direction):
\* the input, and whether check_accept_event let it through
delivered(event_) ==
    IF event_ = UNDEF THEN burst
    ELSE Append(burst, [ event |-> event_, accepted |-> check_accept_event(now) ])

\* the page on a desktop or on a mobile browser
InitInput ==
    /\ \E is_mobile_device \in BOOLEAN : Constructed(is_mobile_device)
    /\ intent = UNDEF
    /\ SceneBuilt

\* set_input_control installs the listeners of one device only
NextInput ==
    \/ TickInput
    \/ load_obj
    \/ /\ ~mobile /\ Len(burst) < MaxBurst
       /\ \E deltaY \in {-1, 0, 1} :
            /\ wheel(deltaY)
            /\ burst' = delivered(IF deltaY > 0 THEN GO_FRONT
                                  ELSE IF deltaY < 0 THEN GO_BACK ELSE UNDEF)
            /\ UNCHANGED << intent, scene_vars >>
    \/ mobile /\ \E clientY \in TouchYs : touchstart(clientY)
    \/ /\ mobile /\ Len(burst) < MaxBurst
       /\ \E new_pos_y \in TouchYs :
            /\ touchmove(new_pos_y)
            /\ burst' = delivered(IF touch_not_enough_delta(new_pos_y) THEN UNDEF
                                  ELSE IF touch_scrolling_up(new_pos_y)
                                  THEN GO_FRONT ELSE GO_BACK)
            /\ UNCHANGED << intent, scene_vars >>
    \/ move_interpolated

SpecInput == InitInput /\ [][NextInput]_vars

\* ------------------------------------------- inputs at the sampling rate
\* milliseconds between two clock readings of SpecSpeed: the shortest
\* whole-frame spacing (at 50 Hz) that check_accept_event lets through
SpeedDelta == 20
\* the clock stops advancing at MaxNowSpeed milliseconds in SpecSpeed
MaxNowSpeed == 400

TickSpeed ==
    /\ now + SpeedDelta <= MaxNowSpeed
    /\ now' = now + SpeedDelta
    /\ upd' = NoCall
    /\ UNCHANGED << state, prev_state, pending_event, prevTS_sampling, duration,
                    drone_obj, position, goal_scroll, i_target, i_start, i_end,
                    i_lookat_start, i_lookat_end, prevTS_forward,
                    prevTS_backward, elapsed_fw, elapsed_bw >>
    /\ UNCHANGED touch_vars
    /\ UNCHANGED << burst, intent, scene_vars >>

\* the desktop page with an input possible every SpeedDelta milliseconds
NextSpeed ==
    \/ TickSpeed
    \/ load_obj
    \/ \E deltaY \in {-1, 0, 1} : wheel(deltaY) /\ UNCHANGED << burst, intent, scene_vars >>
    \/ move_interpolated

SpecSpeed == Init /\ [][NextSpeed]_vars

\* ------------------------------------- frames and a re-sent intent in turn
\* time that suffices to fly every segment of the curve at the slowest
\* schedule: per segment 1000 ms of flight and two frames of at most 500 ms
\* to return to Hovering and to leave it again
TravelBudget == 2000 * NumPoints + 500
\* the user may change the intent during the first TravelWindow milliseconds
TravelWindow == 2500
\* the clock stops advancing at MaxNowTravel milliseconds in SpecTravel
MaxNowTravel == TravelWindow + TravelBudget

\* the frame callback has run at this clock reading
frame_done == upd.op \in { "update_state", "not_ready" }

\* time passes after a frame, whether the frame found the drone loaded or not
\* (burst then holds the inputs of the new clock reading)
TickTravel ==
    /\ frame_done \/ now = 0
    /\ \E d \in Deltas : now + d <= MaxNowTravel /\ now' = now + d
    /\ upd' = NoCall
    /\ burst' = << >>
    /\ UNCHANGED << state, prev_state, pending_event, prevTS_sampling, duration,
                    drone_obj, position, goal_scroll, i_target, i_start, i_end,
                    i_lookat_start, i_lookat_end, prevTS_forward,
                    prevTS_backward, elapsed_fw, elapsed_bw >>
    /\ UNCHANGED touch_vars
    /\ UNCHANGED << intent, scene_vars >>

\* the input layer sends its intent once before every frame
send_intent ==
    /\ burst = << >>
    /\ upd.op = "none" /\ now > 0
    /\ wheel(IF intent = GO_FRONT THEN 1 ELSE -1)
    /\ burst' = delivered(intent)
    /\ UNCHANGED << intent, scene_vars >>

\* the render loop calls the frame callback once per clock reading, and once
\* more when the asset has loaded since
frame ==
    /\ burst # << >>
    /\ ~frame_done
    /\ move_interpolated

\* the user turns the wheel the other way
change_intent ==
    /\ now <= TravelWindow
    /\ intent' = IF intent = GO_FRONT THEN GO_BACK ELSE GO_FRONT
    /\ UNCHANGED << now, state, prev_state, pending_event, prevTS_sampling,
                    duration, drone_obj, position, goal_scroll, i_target, i_start, i_end,
                    i_lookat_start, i_lookat_end, prevTS_forward,
                    prevTS_backward, elapsed_fw, elapsed_bw, upd, burst >>
    /\ UNCHANGED touch_vars
    /\ UNCHANGED scene_vars

InitTravel ==
    Constructed(FALSE) /\ SceneBuilt /\ intent \in { GO_FRONT, GO_BACK }

NextTravel ==
    \/ TickTravel
    \/ load_obj
    \/ send_intent
    \/ frame
    \/ change_intent

\* ENABLED <<frame>>_vars: a frame is due at this clock reading
frame_due == burst # << >> /\ ~frame_done

\* the clock advances, the input layer keeps sending and
\* requestAnimationFrame keeps calling the frame callback; the last conjunct
\* is WF_vars(frame) with its ENABLED written out. Nothing is assumed about
\* the asset: on_error of load_mat and load_obj only logs, so the load may
\* never happen and every frame then returns at once
SpecTravel ==
    /\ InitTravel /\ [][NextTravel]_vars
    /\ WF_vars(TickTravel) /\ WF_vars(send_intent)
    /\ ( []<>(~frame_due) \/ []<><<frame>>_vars )

\* ------------------------------------------- input that comes to an end
\* the user turns the wheel during the first QuietWindow milliseconds only
QuietWindow == 4000
\* time that suffices to finish the segment in flight at the slowest schedule
\* and to run the frame that consumes GoHover
QuietBudget == 2000
\* the clock stops advancing at MaxNowQuiet milliseconds in SpecQuiet
MaxNowQuiet == QuietWindow + QuietBudget

\* time passes after a frame
TickQuiet ==
    /\ frame_done \/ now = 0
    /\ \E d \in Deltas : now + d <= MaxNowQuiet /\ now' = now + d
    /\ upd' = NoCall
    /\ UNCHANGED << state, prev_state, pending_event, prevTS_sampling, duration,
                    drone_obj, position, goal_scroll, i_target, i_start, i_end,
                    i_lookat_start, i_lookat_end, prevTS_forward,
                    prevTS_backward, elapsed_fw, elapsed_bw >>
    /\ UNCHANGED touch_vars
    /\ UNCHANGED << burst, intent, scene_vars >>

\* the user turns the wheel before the frame of this clock reading
wheel_quiet ==
    /\ now <= QuietWindow
    /\ ~frame_done
    /\ \E deltaY \in {-1, 1} : wheel(deltaY)
    /\ UNCHANGED << burst, intent, scene_vars >>

\* the render loop calls the frame callback once per clock reading
frame_quiet ==
    /\ ~frame_done
    /\ move_interpolated

\* the asset finishes loading while the user is still active
load_quiet ==
    /\ now <= QuietWindow
    /\ load_obj

NextQuiet ==
    \/ TickQuiet
    \/ load_quiet
    \/ wheel_quiet
    \/ frame_quiet

\* the clock advances and requestAnimationFrame keeps calling the frame
\* callback; the last conjunct is WF_vars(frame_quiet) with its ENABLED
\* written out
SpecQuiet ==
    /\ Init /\ [][NextQuiet]_vars
    /\ WF_vars(TickQuiet)
    /\ ( []<>(frame_done) \/ []<><<frame_quiet>>_vars )

\* ------------------------------------------- building the flight path
\* the fields of the drone navigation
nav_vars == << state, prev_state, pending_event, prevTS_sampling, duration,
               drone_obj, position, goal_scroll, i_target, i_start, i_end,
               i_lookat_start, i_lookat_end, prevTS_forward, prevTS_backward,
               elapsed_fw, elapsed_bw, upd, mobile, ini_touch_pos_y,
               prev_touch_pos_y, burst, intent >>

\* longest waypoint list PF_Common is configured with
MaxWps == 4
\* the lists PF_Common.FPATH_WPS may hold
WaypointLists ==
    UNION { [ 1..n -> { FPATH_WPS_configured[k] : k \in 1..4 } ] : n \in 0..MaxWps }

\* PF_Scene.createFlightPath: this.m_fpath = new PF_ModelFlightPath(), on
\* every call
createFlightPath ==
    /\ m_fpath' = PF_ModelFlightPath
    /\ UNCHANGED << now, FPATH_WPS, fsm_robot, r_call >>
    /\ UNCHANGED nav_vars
    /\ UNCHANGED arcade_vars

\* PF_ModelFlightPath.dispose_buffers on the flight path the scene holds:
\* the parent frees geometry and material, then both arrays are set to null;
\* on an object already disposed the parent throws on the null geometry and
\* nothing changes
dispose_buffers ==
    /\ m_fpath.waypoints.defined \/ m_fpath.waypoints.null
    /\ m_fpath' = IF m_fpath.waypoints.null THEN m_fpath
                  ELSE [ waypoints |-> NullArray,
                         spline_points3D |-> NullArray ]
    /\ UNCHANGED << now, FPATH_WPS, fsm_robot, r_call >>
    /\ UNCHANGED nav_vars
    /\ UNCHANGED arcade_vars

\* PF_ModelFlightPath.get_geometry called again on the flight path the scene
\* holds
rebuild_geometry ==
    /\ m_fpath.waypoints.defined \/ m_fpath.waypoints.null
    /\ m_fpath' = get_geometry(m_fpath)
    /\ UNCHANGED << now, FPATH_WPS, fsm_robot, r_call >>
    /\ UNCHANGED nav_vars
    /\ UNCHANGED arcade_vars

\* any configured list; the scene holds no flight path yet (the fields of
\* the drone hold the values their constructors give them)
InitCurve ==
    /\ Constructed(FALSE) /\ intent = UNDEF
    /\ FPATH_WPS \in WaypointLists
    /\ m_fpath = [ waypoints |-> NoArray, spline_points3D |-> NoArray ]
    /\ fsm_robot = FSM_Robot
    /\ r_call = NoCall
    /\ ArcadeBuilt

NextCurve == createFlightPath \/ dispose_buffers \/ rebuild_geometry

SpecCurve == InitCurve /\ [][NextCurve]_vars

\* ------------------------------------------------ the robot of the dragon
\* the shoot button may be pressed during the first RobotWindow milliseconds
RobotWindow == 1500
\* time the three timers take, each read up to one clock step late
RobotBudget ==
    FSM_DURATION_LOADING_BULLET_MS + FSM_DURATION_BULLET_TRAVELLING_MS
        + FSM_DURATION_RESET_MS + 3 * 500
\* the clock stops advancing at MaxNowRobot milliseconds in SpecRobot
MaxNowRobot == RobotWindow + RobotBudget

\* the clock reading of the next frame
TickRobot ==
    /\ r_call.op = "update_state" \/ (now = 0 /\ r_call.op = "none")
    /\ \E d \in Deltas : now + d <= MaxNowRobot /\ now' = now + d
    /\ r_call' = NoCall
    /\ UNCHANGED << FPATH_WPS, m_fpath, fsm_robot >>
    /\ UNCHANGED nav_vars
    /\ UNCHANGED arcade_vars

\* FSM_Robot.transit called by the scene with any event, before the frame
robot_transit(event_) ==
    /\ r_call.op # "update_state"
    /\ event_ = SHOOT_STARTED => now <= RobotWindow
    /\ LET r == R_transit(fsm_robot, event_, now)
       IN  /\ fsm_robot' = r.self
           /\ r_call' = [ op |-> "transit", event |-> event_,
                          pre |-> fsm_robot, ret |-> r.ret ]
    /\ UNCHANGED << now, FPATH_WPS, m_fpath >>
    /\ UNCHANGED nav_vars
    /\ UNCHANGED arcade_vars

\* the frame: FSM_Robot.update_state, bullet_collided() returning any value
robot_frame(bullet_collided) ==
    /\ r_call.op # "update_state"
    /\ fsm_robot' = R_update_state(fsm_robot, now, bullet_collided)
    /\ r_call' = [ op |-> "update_state", pre |-> fsm_robot,
                   bullet_collided |-> bullet_collided ]
    /\ UNCHANGED << now, FPATH_WPS, m_fpath >>
    /\ UNCHANGED nav_vars
    /\ UNCHANGED arcade_vars

robot_update == \E bullet_collided \in BOOLEAN : robot_frame(bullet_collided)

NextRobot ==
    \/ TickRobot
    \/ \E event_ \in R_Events : robot_transit(event_)
    \/ robot_update

SpecRobot == Init /\ [][NextRobot]_vars

\* the render loop calls update_state in every frame and time advances
SpecRobotLive ==
    /\ Init /\ [][NextRobot]_vars
    /\ WF_vars(TickRobot)
    /\ WF_vars(robot_update)

\* ------------------------------------------- the screen of the arcade
\* what the calls of the screen FSM leave alone
screen_frame_vars == << now, FPATH_WPS, m_fpath, fsm_robot, r_call, m_display,
                        pictures, loads, d_call >>

\* the owner of the FSM stores an event for the next frame
screen_post(event_) ==
    /\ screen_fsm' = [ screen_fsm EXCEPT !.pending_event = event_ ]
    /\ s_call' = [ op |-> "post", event |-> event_ ]
    /\ UNCHANGED screen_frame_vars
    /\ UNCHANGED nav_vars

\* PF_ScreenFSM.transit called with any event
screen_transit(event_) ==
    LET r == S_transit(screen_fsm, event_)
    IN  /\ screen_fsm' = r.self
        /\ s_call' = [ op |-> "transit", event |-> event_, pre |-> screen_fsm,
                       ret |-> r.ret, cbs |-> r.cbs ]
        /\ UNCHANGED screen_frame_vars
        /\ UNCHANGED nav_vars

\* PF_ScreenFSM.update_state, called once per frame
screen_update ==
    LET r == S_update_state(screen_fsm)
    IN  /\ screen_fsm' = r.self
        /\ s_call' = [ op |-> "update_state",
                       event |-> screen_fsm.pending_event,
                       pre |-> screen_fsm, cbs |-> r.cbs ]
        /\ UNCHANGED screen_frame_vars
        /\ UNCHANGED nav_vars

NextScreen ==
    \/ \E event_ \in PF_ScreenEvent : screen_post(event_)
    \/ \E event_ \in PF_ScreenEvent : screen_transit(event_)
    \/ screen_update

SpecScreen == Init /\ [][NextScreen]_vars

\* ------------------------------------------ the display of the arcade
\* the drone visits, and the user swipes at, the waypoints 0 .. MaxShownWp
MaxShownWp == 1
ShownWps == { wp_index \in WpIndices : wp_index <= MaxShownWp }

\* what the calls of the display leave alone
display_frame_vars == << now, FPATH_WPS, m_fpath, fsm_robot, r_call,
                         screen_fsm, s_call >>

\* the sequence l without its k-th element
RemoveAt(l, k) == SubSeq(l, 1, k - 1) \o SubSeq(l, k + 1, Len(l))

\* PF_ModelArcade.show_pictures_when_close_to_screen, called once per frame
\* with the drone close to the display or not, at waypoint wp_index
arcade_frame(close, wp_index) ==
    LET r == show_pictures_when_close_to_screen(m_display, loads, pictures,
                                                close, wp_index)
    IN  /\ m_display' = r.self
        /\ loads' = r.loads
        /\ d_call' = [ op |-> "frame", close |-> close, wp_index |-> wp_index,
                       pre |-> m_display, pre_loads |-> loads ]
        /\ UNCHANGED pictures
        /\ UNCHANGED display_frame_vars
        /\ UNCHANGED nav_vars

\* the loader finishes the k-th request and calls on_loaded_sequence
texture_loaded(k) ==
    /\ k \in 1 .. Len(loads)
    /\ m_display' = on_loaded_sequence(m_display, loads[k])
    /\ loads' = RemoveAt(loads, k)
    /\ d_call' = [ op |-> "on_loaded", url |-> loads[k], pre |-> m_display,
                   pre_loads |-> loads ]
    /\ UNCHANGED pictures
    /\ UNCHANGED display_frame_vars
    /\ UNCHANGED nav_vars

\* the loader gives up the k-th request and calls on_error
texture_failed(k) ==
    /\ k \in 1 .. Len(loads)
    /\ m_display' = on_error(m_display)
    /\ loads' = RemoveAt(loads, k)
    /\ d_call' = [ op |-> "on_error", url |-> loads[k], pre |-> m_display,
                   pre_loads |-> loads ]
    /\ UNCHANGED pictures
    /\ UNCHANGED display_frame_vars
    /\ UNCHANGED nav_vars

\* the user swipes to the next picture of waypoint wp_index
swipe_next(wp_index) ==
    /\ pictures' = set_next_image_index(pictures, wp_index)
    /\ d_call' = [ op |-> "set_next", wp_index |-> wp_index,
                   before |-> pictures[wp_index] ]
    /\ UNCHANGED << m_display, loads >>
    /\ UNCHANGED display_frame_vars
    /\ UNCHANGED nav_vars

\* the user swipes to the previous picture of waypoint wp_index; after_next
\* tells that the call before was set_next_image_index for the same waypoint
\* and origin is pic_index before that call
swipe_prev(wp_index) ==
    /\ pictures' = set_prev_image_index(pictures, wp_index)
    /\ d_call' = [ op |-> "set_prev", wp_index |-> wp_index,
                   before |-> pictures[wp_index],
                   after_next |-> ( /\ d_call.op = "set_next"
                                    /\ d_call.wp_index = wp_index ),
                   origin |-> IF d_call.op = "set_next"
                              THEN d_call.before
                              ELSE pictures[wp_index] ]
    /\ UNCHANGED << m_display, loads >>
    /\ UNCHANGED display_frame_vars
    /\ UNCHANGED nav_vars

NextDisplay ==
    \/ \E close \in BOOLEAN, wp_index \in ShownWps : arcade_frame(close, wp_index)
    \/ \E k \in 1 .. Len(loads) : texture_loaded(k)
    \/ \E k \in 1 .. Len(loads) : texture_failed(k)
    \/ \E wp_index \in ShownWps : swipe_next(wp_index)
    \/ \E wp_index \in ShownWps : swipe_prev(wp_index)

SpecDisplay == Init /\ [][NextDisplay]_vars

\* ------------------------------------------------------------- helpers
\* the last handler was a frame that ran update_state
Updated == upd.op = "update_state"

\* update_state left the navigation fields as they were
NavUnchanged ==
    /\ upd.post.state = upd.pre.state
    /\ upd.post.i_target = upd.pre.i_target
    /\ upd.post.i_start = upd.pre.i_start
    /\ upd.post.i_end = upd.pre.i_end
    /\ upd.post.i_lookat_start = upd.pre.i_lookat_start
    /\ upd.post.i_lookat_end = upd.pre.i_lookat_end
    /\ upd.post.prevTS_forward = upd.pre.prevTS_forward
    /\ upd.post.prevTS_backward = upd.pre.prevTS_backward
    /\ upd.post.cbs = << >>

\* greatest common divisor of two naturals
RECURSIVE GCD(_, _)
GCD(a, b) == IF b = 0 THEN a ELSE GCD(b, a % b)

\* a fraction with a positive denominator in lowest terms
Lowest(f) ==
    LET g == GCD(IF f.n < 0 THEN -f.n ELSE f.n, f.d)
    IN  [ n |-> f.n \div g, d |-> f.d \div g ]

\* two fractions denote the same number
SameNumber(p, q) == Lowest(p) = Lowest(q)

\* ================================================================ claims

\* C1: the movement FSM starts in Hovering with target_index = 0 and its
\* state changes only along the six listed (state, event, next state) rows;
\* no step of the program changes the state in any other way.
C1_OnlyListedTransitions ==
    /\ state = HOVERING /\ i_target = 0
    /\ [][ state' # state =>
             << state, pending_event, state' >> \in
                { << "hovering", "go_forward", "forward" >>,
                  << "hovering", "go_backward", "backward" >>,
                  << "forward", "go_backward", "backward" >>,
                  << "forward", "go_hover", "hovering" >>,
                  << "backward", "go_forward", "forward" >>,
                  << "backward", "go_hover", "hovering" >> } ]_vars

\* a frame in which Backward was left for Hovering on GoHover
C1_Witness ==
    /\ Updated
    /\ upd.pre.state = BACKWARD /\ upd.pre.pending_event = GO_HOVER
    /\ state = HOVERING

\* C2: target_index stays within 0 .. last_index after any sequence of
\* frames, inputs, reversals and segment completions.
C2_TargetInRange == 0 <= i_target /\ i_target <= NumPoints - 1

\* a Forward->Backward reversal whose +1 put target_index on last_index
C2_Witness ==
    /\ Updated
    /\ upd.post.cbs = << "on_forward_to_backward" >>
    /\ upd.post.i_target = NumPoints - 1

\* C3 (as claimed): at the end of every frame, Forward or Backward implies
\* segment_start_index = target_index and segment_end_index the adjacent
\* index in the direction of travel, clamped, also in the frame in which
\* the segment completes.
C3_SegmentFollowsTarget ==
    /\ state = FORWARD =>
         i_start = i_target /\ i_end = Min(i_target + 1, NumPoints - 1)
    /\ state = BACKWARD =>
         i_start = i_target /\ i_end = Max(i_target - 1, 0)

\* C3 (amended): the relation holds while no GoHover is pending; in the
\* frame that completes a segment target_index has already moved onto
\* segment_end_index and segment_start_index still is the previous target.
C3_SegmentFollowsTargetUnlessCompleted ==
    /\ (state = FORWARD /\ pending_event # GO_HOVER) =>
         i_start = i_target /\ i_end = Min(i_target + 1, NumPoints - 1)
    /\ (state = BACKWARD /\ pending_event # GO_HOVER) =>
         i_start = i_target /\ i_end = Max(i_target - 1, 0)
    /\ (state = FORWARD /\ pending_event = GO_HOVER) =>
         i_end = i_target /\ i_start = i_target - 1
    /\ (state = BACKWARD /\ pending_event = GO_HOVER) =>
         i_end = i_target /\ i_start = i_target + 1

\* the frame that completed a backward segment: GoHover pending in Backward
C3_Witness ==
    /\ Updated
    /\ state = BACKWARD /\ pending_event = GO_HOVER
    /\ upd.post.pending_event = UNDEF

\* C4: a GoForward consumed by update_state while target_index = last_index
\* causes no transition in any state: state, target_index, segment and
\* look-ahead indices and segment timestamps are unchanged, no entry action
\* runs and the pending slot is empty afterwards.
C4_GoForwardAtLastRejected ==
    ( /\ Updated
      /\ upd.pre.pending_event = GO_FRONT
      /\ upd.pre.i_target = NumPoints - 1 )
    => NavUnchanged /\ upd.post.pending_event = UNDEF

\* GoForward consumed in Backward on the last point (after a reversal)
C4_Witness ==
    /\ Updated
    /\ upd.pre.pending_event = GO_FRONT
    /\ upd.pre.i_target = NumPoints - 1
    /\ upd.pre.state = BACKWARD

\* C5: a GoBackward consumed while target_index = 0 is rejected in every
\* state (state, target_index, segment indices, timestamps unchanged), and
\* from Hovering or Forward that is the only case in which it is refused.
C5_GoBackwardAtFirstRejected ==
    /\ ( /\ Updated
         /\ upd.pre.pending_event = GO_BACK
         /\ upd.pre.i_target = 0 )
       => NavUnchanged /\ upd.post.pending_event = UNDEF
    /\ ( /\ Updated
         /\ upd.pre.pending_event = GO_BACK
         /\ upd.pre.i_target # 0
         /\ upd.pre.state \in { HOVERING, FORWARD } )
       => upd.post.state = BACKWARD /\ upd.post.ret = "true"

\* GoBackward consumed in Forward in the middle of the first segment
C5_Witness ==
    /\ Updated
    /\ upd.pre.pending_event = GO_BACK
    /\ upd.pre.i_target = 0
    /\ upd.pre.state = FORWARD
    /\ upd.pre.elapsed_fw > 0
    /\ upd.pre.elapsed_fw < upd.pre.duration

\* C6: transit(event) with a (state, event) pair that is not in the
\* transition table returns false, leaves the state (and every other field)
\* unchanged and invokes no on_*_to_* callback, for every state and event.
C6_UnlistedPairIsNoOp ==
    ( /\ upd.op = "transit"
      /\ << upd.pre.state, upd.event >> \notin
            { << "hovering", "go_forward" >>, << "hovering", "go_backward" >>,
              << "forward", "go_backward" >>, << "forward", "go_hover" >>,
              << "backward", "go_forward" >>, << "backward", "go_hover" >> } )
    => /\ upd.post.ret = "false"
       /\ upd.post.cbs = << >>
       /\ upd.post = [ upd.pre EXCEPT !.ret = "false" ]
       /\ state = upd.pre.state

\* transit(GoForward) called while Forward, in the middle of a segment
C6_Witness ==
    /\ upd.op = "transit"
    /\ upd.event = GO_FRONT
    /\ upd.pre.state = FORWARD
    /\ upd.pre.elapsed_fw > 0
    /\ upd.post.ret = "false"

\* C7 (as claimed): Hovering->Forward sets segment_start = target,
\* segment_end = min(target+1, last), lookahead_start = segment_end,
\* lookahead_end = min(segment_end+1, last) and the timestamp to now;
\* Hovering->Backward mirrors it with max(..., 0).
C7_EntryActionIndices ==
    /\ (Updated /\ upd.post.cbs = << "on_hovering_to_forward" >>) =>
         /\ upd.post.i_start = upd.pre.i_target
         /\ upd.post.i_end = Min(upd.pre.i_target + 1, NumPoints - 1)
         /\ upd.post.i_lookat_start = upd.post.i_end
         /\ upd.post.i_lookat_end = Min(upd.post.i_end + 1, NumPoints - 1)
         /\ upd.post.prevTS_forward = now
    /\ (Updated /\ upd.post.cbs = << "on_hovering_to_backward" >>) =>
         /\ upd.post.i_start = upd.pre.i_target
         /\ upd.post.i_end = Max(upd.pre.i_target - 1, 0)
         /\ upd.post.i_lookat_start = upd.post.i_end
         /\ upd.post.i_lookat_end = Max(upd.post.i_end - 1, 0)
         /\ upd.post.prevTS_backward = now

\* C7 (amended): as claimed, except that lookahead_start is
\* min(target+1, last-1) going forward and max(target-1, 1) going backward,
\* which differs from segment_end when target is last-1 (resp. 1).
C7_EntryActionIndicesClamped ==
    /\ (Updated /\ upd.post.cbs = << "on_hovering_to_forward" >>) =>
         /\ upd.pre.state = HOVERING /\ upd.post.state = FORWARD
         /\ upd.post.i_start = upd.pre.i_target
         /\ upd.post.i_end = Min(upd.pre.i_target + 1, NumPoints - 1)
         /\ upd.post.i_lookat_start = Min(upd.pre.i_target + 1, NumPoints - 2)
         /\ upd.post.i_lookat_end = Min(upd.post.i_end + 1, NumPoints - 1)
         /\ upd.post.prevTS_forward = now
    /\ (Updated /\ upd.post.cbs = << "on_hovering_to_backward" >>) =>
         /\ upd.pre.state = HOVERING /\ upd.post.state = BACKWARD
         /\ upd.post.i_start = upd.pre.i_target
         /\ upd.post.i_end = Max(upd.pre.i_target - 1, 0)
         /\ upd.post.i_lookat_start = Max(upd.pre.i_target - 1, 1)
         /\ upd.post.i_lookat_end = Max(upd.post.i_end - 1, 0)
         /\ upd.post.prevTS_backward = now
    /\ (Updated /\ upd.pre.state = HOVERING /\ upd.post.state = FORWARD) =>
         upd.post.cbs = << "on_hovering_to_forward" >>
    /\ (Updated /\ upd.pre.state = HOVERING /\ upd.post.state = BACKWARD) =>
         upd.post.cbs = << "on_hovering_to_backward" >>

\* Hovering->Forward entered from target_index = last_index - 1
C7_Witness ==
    /\ Updated
    /\ upd.post.cbs = << "on_hovering_to_forward" >>
    /\ upd.pre.i_target = NumPoints - 2
    /\ upd.post.i_lookat_start # upd.post.i_end

\* C8: GoBackward consumed in Forward at target_index = t >= 1, e the
\* elapsed time measured by the last interpolation of the segment and D the
\* segment duration, gives Backward with target_index = t+1,
\* segment_start = t+1, segment_end = t, segment_start_timestamp =
\* now - (D - e), and the elapsed time of the new backward segment is D - e;
\* Backward->Forward mirrors it with target_index = t-1.
C8_ReversalCompensation ==
    /\ ( /\ Updated /\ upd.pre.state = FORWARD
         /\ upd.pre.pending_event = GO_BACK /\ upd.pre.i_target >= 1 )
       => /\ upd.post.state = BACKWARD
          /\ upd.post.i_target = upd.pre.i_target + 1
          /\ upd.post.i_start = upd.pre.i_target + 1
          /\ upd.post.i_end = upd.pre.i_target
          /\ upd.post.prevTS_backward =
                now - (upd.pre.duration - upd.pre.elapsed_fw)
          /\ elapsed_bw = upd.pre.duration - upd.pre.elapsed_fw
    /\ ( /\ Updated /\ upd.pre.state = BACKWARD
         /\ upd.pre.pending_event = GO_FRONT
         /\ upd.pre.i_target <= NumPoints - 2 )
       => /\ upd.post.state = FORWARD
          /\ upd.post.i_target = upd.pre.i_target - 1
          /\ upd.post.i_start = upd.pre.i_target - 1
          /\ upd.post.i_end = upd.pre.i_target
          /\ upd.post.prevTS_forward =
                now - (upd.pre.duration - upd.pre.elapsed_bw)
          /\ elapsed_fw = upd.pre.duration - upd.pre.elapsed_bw

\* a Forward->Backward reversal a quarter into a 1000 ms segment
C8_Witness ==
    /\ Updated
    /\ upd.pre.state = FORWARD /\ upd.pre.pending_event = GO_BACK
    /\ upd.pre.i_target >= 1
    /\ upd.pre.duration = 1000 /\ upd.pre.elapsed_fw = 250
    /\ state = BACKWARD /\ elapsed_bw = 750

\* C9: a direction reversal causes no positional jump: the position
\* computed in the frame of a Forward->Backward or Backward->Forward
\* reversal is the point the drone had before that frame, for every elapsed
\* time and every segment duration.
C9_NoJumpOnReversal ==
    ( /\ Updated
      /\ \/ upd.pre.state = FORWARD /\ upd.post.state = BACKWARD
         \/ upd.pre.state = BACKWARD /\ upd.post.state = FORWARD )
    => /\ SamePoint(upd.pre.position, position)
       /\ position.d > 0

\* a reversal inside a segment whose duration speed-ups had shortened, the
\* position being computed anew in the frame of the reversal
C9_Witness ==
    /\ Updated
    /\ upd.pre.state = FORWARD /\ upd.post.state = BACKWARD
    /\ upd.pre.duration < FPATH_SEGMENT_DURATION_MAX_MS
    /\ upd.pre.elapsed_fw > 0
    /\ pending_event = UNDEF
    /\ position = lerp(fpath_curve(i_start), fpath_curve(i_end),
                       factor(elapsed_bw, duration))

\* C10: a Forward->Backward reversal at target_index = t followed, with no
\* frame in between, by a GoForward leaves the FSM in Forward with
\* target_index = t again, for every t at which the first reversal is
\* accepted (prev_state = Forward and state = Backward say that the last
\* update_state reversed; target_index then is t + 1).
C10_ReversalRoundTrip ==
    ( /\ Updated
      /\ upd.pre.prev_state = FORWARD /\ upd.pre.state = BACKWARD
      /\ upd.pre.pending_event = GO_FRONT )
    => /\ upd.post.state = FORWARD
       /\ upd.post.i_target = upd.pre.i_target - 1

\* C11: in the frame in which the interpolation factor of the active segment
\* reaches 1.0 (elapsed time >= segment duration) target_index is changed
\* by exactly +1 (Forward) or -1 (Backward) and GoHover becomes the pending
\* event; target_index changes at no other moment except in the two
\* reversal entry actions (+1 on Forward->Backward, -1 on
\* Backward->Forward), and never outside a frame.
C11_CompletionAdvancesTarget ==
    /\ [] ( Updated =>
            /\ ( /\ upd.post.state = FORWARD
                 /\ upd.post.i_target # NumPoints - 1
                 /\ now - upd.post.prevTS_forward >= upd.post.duration )
               => i_target = upd.post.i_target + 1 /\ pending_event = GO_HOVER
            /\ ( /\ upd.post.state = BACKWARD
                 /\ upd.post.i_target # 0
                 /\ now - upd.post.prevTS_backward >= upd.post.duration )
               => i_target = upd.post.i_target - 1 /\ pending_event = GO_HOVER
            /\ i_target # upd.post.i_target =>
                 \/ /\ upd.post.state = FORWARD
                    /\ now - upd.post.prevTS_forward >= upd.post.duration
                 \/ /\ upd.post.state = BACKWARD
                    /\ now - upd.post.prevTS_backward >= upd.post.duration
            /\ upd.post.i_target # upd.pre.i_target =>
                 \/ /\ upd.post.cbs = << "on_forward_to_backward" >>
                    /\ upd.post.i_target = upd.pre.i_target + 1
                 \/ /\ upd.post.cbs = << "on_backward_to_forward" >>
                    /\ upd.post.i_target = upd.pre.i_target - 1 )
    /\ [][ upd'.op # "update_state" => i_target' = i_target ]_vars

\* the third consecutive forward segment from index 0 has just completed:
\* target_index went 2 -> 3 and GoHover is pending
C11_Witness ==
    /\ Updated
    /\ upd.post.state = FORWARD /\ upd.post.i_target = 2
    /\ upd.post.i_start = 2
    /\ now - upd.post.prevTS_forward >= upd.post.duration
    /\ i_target = 3 /\ pending_event = GO_HOVER

\* C12: every update_state call consumes at most one event and performs at
\* most one state transition (at most one entry/exit callback, and a state
\* change only along the row of the consumed event); when it returns the
\* pending-event slot is empty, whether the event caused a transition, a
\* speed-up or was rejected, and without an event nothing transits.
C12_OneEventPerUpdate ==
    Updated =>
      /\ upd.post.pending_event = UNDEF
      /\ Len(upd.post.cbs) <= 1
      /\ upd.post.state # upd.pre.state =>
           /\ Len(upd.post.cbs) = 1
           /\ << upd.pre.state, upd.pre.pending_event, upd.post.state >> \in
                { << "hovering", "go_forward", "forward" >>,
                  << "hovering", "go_backward", "backward" >>,
                  << "forward", "go_backward", "backward" >>,
                  << "forward", "go_hover", "hovering" >>,
                  << "backward", "go_forward", "forward" >>,
                  << "backward", "go_hover", "hovering" >> }
      /\ upd.post.state = upd.pre.state => upd.post.cbs = << >>
      /\ upd.pre.pending_event = UNDEF =>
           upd.post.state = upd.pre.state /\ upd.post.duration >= upd.pre.duration

\* a GoBackward consumed as a speed-up: no transition, slot empty afterwards
C12_Witness ==
    /\ Updated
    /\ upd.pre.state = BACKWARD /\ upd.pre.pending_event = GO_BACK
    /\ upd.post.duration < upd.pre.duration
    /\ upd.post.state = BACKWARD
    /\ upd.post.pending_event = UNDEF

\* the input handler may accept: empty slot and sampling period elapsed
CanAccept ==
    pending_event = UNDEF /\ (now - prevTS_sampling) * 60 >= 1000

\* C13: an input (wheel or touchmove) becomes a pending GoForward/GoBackward
\* only if the pending slot is empty and at least sampling_period_ms
\* (1000/60 ms) has elapsed since the last accepted input, the sampling
\* timestamp then being set to now; otherwise the input changes nothing:
\* the pending event and the sampling timestamp keep their values.
C13_AcceptWhenIdleAndSampled ==
    [][ /\ ( /\ pending_event' \in { GO_FRONT, GO_BACK }
             /\ pending_event' # pending_event )
           => CanAccept /\ prevTS_sampling' = now
        /\ ~CanAccept =>
             /\ prevTS_sampling' = prevTS_sampling
             /\ pending_event' \in { GO_FRONT, GO_BACK } =>
                  pending_event' = pending_event
        /\ prevTS_sampling' # prevTS_sampling => prevTS_sampling' = now
      ]_vars

\* a touchmove upwards by more than min_delta has just been accepted while
\* the drone flies forward: GoForward pending, sampling timestamp = now
C13_Witness ==
    /\ mobile
    /\ pending_event = GO_FRONT
    /\ prevTS_sampling = now /\ now > 0
    /\ prev_touch_pos_y < ini_touch_pos_y
    /\ state = FORWARD

\* C14 (as claimed): when several directional inputs arrive between two
\* consecutive frames, all are dropped except the most recent one: the
\* event consumed by the next update_state is the last input of the burst.
C14_BurstKeepsMostRecent ==
    ( /\ Updated
      /\ Len(upd.burst) >= 2
      /\ upd.pre.pending_event \in { GO_FRONT, GO_BACK } )
    => upd.pre.pending_event = upd.burst[Len(upd.burst)].event

\* C14 (amended): of the directional inputs that arrive between two
\* consecutive frames at most one is accepted, namely the first that finds
\* the slot empty and the sampling period elapsed; it is the event the next
\* update_state consumes, and every later input of the burst is dropped.
C14_BurstKeepsFirstAccepted ==
    Updated =>
      LET acc == { i \in 1 .. Len(upd.burst) : upd.burst[i].accepted }
      IN  /\ Cardinality(acc) <= 1
          /\ upd.pre.pending_event \in { GO_FRONT, GO_BACK } =>
               \E i \in acc : upd.burst[i].event = upd.pre.pending_event
          /\ upd.pre.pending_event \notin { GO_FRONT, GO_BACK } => acc = {}

\* a frame after a burst of three inputs whose first was accepted and whose
\* last asked for the opposite direction
C14_Witness ==
    /\ Updated
    /\ Len(upd.burst) = 3
    /\ upd.burst[1].accepted
    /\ upd.burst[3].event # upd.burst[1].event
    /\ upd.pre.pending_event = upd.burst[1].event

\* C15: GoHover always succeeds: whenever update_state consumes a pending
\* GoHover the FSM is in Forward or Backward, the transition is performed
\* (transit returns true, the on_*_to_hovering callback runs) and the update
\* ends in Hovering; GoHover is never consumed while Hovering and is never
\* rejected.
C15_GoHoverAlwaysSucceeds ==
    ( Updated /\ upd.pre.pending_event = GO_HOVER )
    => /\ upd.pre.state \in { FORWARD, BACKWARD }
       /\ upd.post.state = HOVERING
       /\ upd.post.ret = "true"
       /\ upd.post.cbs =
            << IF upd.pre.state = FORWARD THEN "on_forward_to_hovering"
               ELSE "on_backward_to_hovering" >>
       /\ state = HOVERING

\* GoHover consumed in Backward after a segment that had been reversed
C15_Witness ==
    /\ Updated
    /\ upd.pre.pending_event = GO_HOVER
    /\ upd.pre.state = BACKWARD
    /\ upd.pre.prevTS_forward # undefined
    /\ upd.pre.prevTS_backward < upd.pre.prevTS_forward
    /\ state = HOVERING

\* update_state consumed a same-direction intent (a speed-up request)
SpeedUpConsumed ==
    /\ Updated
    /\ \/ upd.pre.state = FORWARD /\ upd.pre.pending_event = GO_FRONT
       \/ upd.pre.state = BACKWARD /\ upd.pre.pending_event = GO_BACK

\* C16: the shared segment duration stays within [duration_min,
\* duration_max] = [200 ms, 1000 ms] after any sequence of frames and
\* inputs, i.e. any interleaving of set_speed_faster and set_speed_slower;
\* once it is at duration_min a further same-direction intent leaves it at
\* duration_min.
C16_DurationWithinBounds ==
    /\ 200 <= duration /\ duration <= 1000
    /\ Updated => 200 <= upd.post.duration /\ upd.post.duration <= 1000
    /\ ( SpeedUpConsumed /\ upd.pre.duration = 200 ) => upd.post.duration = 200

\* a same-direction intent consumed while the duration already is 200 ms
C16_Witness ==
    /\ SpeedUpConsumed
    /\ upd.pre.duration = 200
    /\ duration = 200

\* C17: a GoForward consumed while Forward (or GoBackward while Backward)
\* is a speed-up request only: the segment duration is shortened by one
\* step of 50 ms, clamped to duration_min, while the FSM state,
\* target_index, the segment and look-ahead indices and the segment start
\* timestamps are unchanged and no entry action runs.
C17_SameDirectionIsSpeedUp ==
    SpeedUpConsumed =>
      /\ upd.post.duration = Max(upd.pre.duration - 50, 200)
      /\ NavUnchanged
      /\ upd.post.ret = UNDEF
      /\ upd.post.pending_event = UNDEF

\* a GoBackward consumed in Backward shortens the duration from 250 to 200
C17_Witness ==
    /\ SpeedUpConsumed
    /\ upd.pre.state = BACKWARD
    /\ upd.pre.duration = 250
    /\ upd.post.duration = 200
    /\ upd.post.prevTS_backward = upd.pre.prevTS_backward

\* C18: while the FSM is Hovering every update_state moves the segment
\* duration one step of 50 ms back toward its default duration_max and
\* never past it (so the distance to duration_max strictly decreases until
\* it is 0, and at duration_max it stays); a Forward or Backward frame
\* without a user input never changes the duration.
C18_HoveringDecaysToDefault ==
    /\ ( Updated /\ upd.pre.state = HOVERING ) =>
         /\ upd.post.duration = Min(upd.pre.duration + 50, 1000)
         /\ upd.pre.duration < 1000 => upd.post.duration > upd.pre.duration
         /\ upd.pre.duration = 1000 => upd.post.duration = 1000
         /\ duration = upd.post.duration
    /\ ( /\ Updated /\ upd.pre.state \in { FORWARD, BACKWARD }
         /\ upd.pre.pending_event \notin { GO_FRONT, GO_BACK } ) =>
         duration = upd.pre.duration

\* the second consecutive Hovering frame after a segment flown with three
\* speed-ups: the duration goes up by one more step
C18_Witness ==
    /\ Updated
    /\ upd.pre.state = HOVERING /\ upd.pre.prev_state = HOVERING
    /\ upd.pre.pending_event = UNDEF
    /\ upd.pre.duration = 900
    /\ duration = 950

\* the frame that just ran interpolated the segment the previous frame had
\* interpolated: same direction before and after update_state
SameSegmentFW == Updated /\ upd.pre.state = FORWARD /\ upd.post.state = FORWARD
SameSegmentBW == Updated /\ upd.pre.state = BACKWARD /\ upd.post.state = BACKWARD

\* C19: within one segment (from its entry action until completion or
\* reversal) the interpolation factor computed in each frame is exactly
\* elapsed/duration while that is below 1 and exactly 1.0 (the segment
\* completes) once elapsed >= duration, never exceeds 1.0, and is not
\* smaller than the factor of the previous frame of the segment, for
\* monotone time and any interleaving of speed-ups shortening the duration.
C19_FactorMonotoneAndClamped ==
    /\ ( Updated /\ upd.post.state = FORWARD /\ upd.post.i_target # NumPoints - 1 ) =>
         /\ elapsed_fw = now - upd.post.prevTS_forward
         /\ elapsed_fw >= 0
         /\ elapsed_fw < duration =>
              /\ pending_event # GO_HOVER
              /\ position = lerp(fpath_curve(i_start), fpath_curve(i_end),
                                 [ n |-> elapsed_fw, d |-> duration ])
         /\ elapsed_fw >= duration => pending_event = GO_HOVER
    /\ ( Updated /\ upd.post.state = BACKWARD /\ upd.post.i_target # 0 ) =>
         /\ elapsed_bw = now - upd.post.prevTS_backward
         /\ elapsed_bw >= 0
         /\ elapsed_bw < duration =>
              /\ pending_event # GO_HOVER
              /\ position = lerp(fpath_curve(i_start), fpath_curve(i_end),
                                 [ n |-> elapsed_bw, d |-> duration ])
         /\ elapsed_bw >= duration => pending_event = GO_HOVER
    /\ SameSegmentFW =>
         Min(upd.pre.elapsed_fw, upd.pre.duration) * duration
           <= Min(elapsed_fw, duration) * upd.pre.duration
    /\ SameSegmentBW =>
         Min(upd.pre.elapsed_bw, upd.pre.duration) * duration
           <= Min(elapsed_bw, duration) * upd.pre.duration

\* a frame of a forward segment in which a speed-up shortened the duration
\* and the factor grew without reaching 1
C19_Witness ==
    /\ SameSegmentFW
    /\ upd.pre.pending_event = GO_FRONT
    /\ upd.pre.elapsed_fw > 0
    /\ duration < upd.pre.duration
    /\ elapsed_fw < duration
    /\ upd.pre.elapsed_fw * duration < elapsed_fw * upd.pre.duration

\* C20: whenever the FSM is Hovering the loaded drone is located exactly at
\* CurvePoint[target_index], and whenever it is Forward or Backward it lies
\* on the segment departing from CurvePoint[target_index]; in particular
\* after a segment has completed and the FSM is back in Hovering the
\* position equals the end point of that segment.
C20_PositionAtTarget ==
    drone_obj =>
      /\ position.d > 0
      /\ state = HOVERING =>
           position.n = fpath_curve(i_target) * position.d
      /\ state = FORWARD =>
           /\ fpath_curve(i_target) * position.d <= position.n
           /\ position.n <= fpath_curve(Min(i_target + 1, NumPoints - 1)) * position.d
      /\ state = BACKWARD =>
           /\ fpath_curve(Max(i_target - 1, 0)) * position.d <= position.n
           /\ position.n <= fpath_curve(i_target) * position.d

\* the entry action keyed by the pair (previous state, new state)
EntryActionOf(prev_, new_) ==
    IF prev_ = HOVERING /\ new_ = FORWARD THEN "on_hovering_to_forward"
    ELSE IF prev_ = HOVERING /\ new_ = BACKWARD THEN "on_hovering_to_backward"
    ELSE IF prev_ = FORWARD /\ new_ = BACKWARD THEN "on_forward_to_backward"
    ELSE IF prev_ = BACKWARD /\ new_ = FORWARD THEN "on_backward_to_forward"
    ELSE IF prev_ = FORWARD /\ new_ = HOVERING THEN "on_forward_to_hovering"
    ELSE IF prev_ = BACKWARD /\ new_ = HOVERING THEN "on_backward_to_hovering"
    ELSE "none"

\* C21: each successful transition runs exactly one entry action, the one
\* keyed by (state at the start of the frame, new state), exactly once;
\* a frame without a transition runs no entry action; the
\* Forward->Hovering and Backward->Hovering actions change no index (nor a
\* segment timestamp).
C21_OneEntryActionPerTransition ==
    Updated =>
      /\ upd.post.state # upd.pre.state =>
           /\ upd.post.ret = "true"
           /\ upd.post.cbs = << EntryActionOf(upd.pre.state, upd.post.state) >>
           /\ upd.post.cbs # << "none" >>
      /\ upd.post.state = upd.pre.state =>
           upd.post.cbs = << >> /\ upd.post.ret # "true"
      /\ upd.post.state = HOVERING =>
           /\ upd.post.i_target = upd.pre.i_target
           /\ upd.post.i_start = upd.pre.i_start
           /\ upd.post.i_end = upd.pre.i_end
           /\ upd.post.i_lookat_start = upd.pre.i_lookat_start
           /\ upd.post.i_lookat_end = upd.pre.i_lookat_end
           /\ upd.post.prevTS_forward = upd.pre.prevTS_forward
           /\ upd.post.prevTS_backward = upd.pre.prevTS_backward

\* a Backward->Forward reversal ran on_backward_to_forward, once
C21_Witness ==
    /\ Updated
    /\ upd.pre.state = BACKWARD /\ upd.post.state = FORWARD
    /\ upd.post.cbs = << "on_backward_to_forward" >>

\* C22: between any two segment completions the FSM is Hovering in at least
\* one frame: a completion leaves GoHover pending, and from then on
\* target_index does not change and the slot keeps GoHover until a frame
\* ends in Hovering, whatever inputs the user sends; so target_index is
\* never advanced by two completions without a Hovering state in between.
C22_HoveringBetweenCompletions ==
    /\ [] ( ( Updated /\ i_target # upd.post.i_target ) =>
              pending_event = GO_HOVER /\ upd.pre.pending_event # GO_HOVER )
    /\ [][ pending_event = GO_HOVER =>
             /\ i_target' = i_target
             /\ \/ state' = HOVERING /\ pending_event' = UNDEF
                \/ state' = state /\ pending_event' = GO_HOVER ]_vars

\* the second forward segment in a row has completed while the user kept
\* sending GoForward (the duration has been shortened)
C22_Witness ==
    /\ Updated
    /\ state = FORWARD /\ pending_event = GO_HOVER
    /\ i_target = 2 /\ i_start = 1
    /\ duration < 1000
    /\ upd.pre.pending_event = GO_FRONT

\* C23: continuous travel: if frames keep running, time advances and the
\* input layer keeps re-sending GoForward whenever it is accepted, then
\* from any state of the loaded drone (any target_index, moving or not) the
\* drone eventually rests in Hovering at target_index = last_index, unless
\* the user changes the intent, and it stays there while the intent stays;
\* symmetrically with GoBackward it eventually rests at index 0.
\* (The antecedent leaves the clock of the model TravelBudget ms to run.)
C23_ContinuousTravel ==
    /\ [][ ( /\ i_target = NumPoints - 1 /\ state = HOVERING
             /\ pending_event # GO_BACK
             /\ intent = GO_FRONT /\ intent' = GO_FRONT )
           => ( i_target' = NumPoints - 1 /\ state' = HOVERING ) ]_vars
    /\ [][ ( /\ i_target = 0 /\ state = HOVERING
             /\ pending_event # GO_FRONT
             /\ intent = GO_BACK /\ intent' = GO_BACK )
           => ( i_target' = 0 /\ state' = HOVERING ) ]_vars
    /\ ( drone_obj /\ intent = GO_FRONT
           /\ now + TravelBudget <= MaxNowTravel )
         ~> ( \/ i_target = NumPoints - 1 /\ state = HOVERING
                   /\ pending_event = UNDEF
              \/ intent = GO_BACK )
    /\ ( drone_obj /\ intent = GO_BACK
           /\ now + TravelBudget <= MaxNowTravel )
         ~> ( \/ i_target = 0 /\ state = HOVERING /\ pending_event = UNDEF
              \/ intent = GO_FRONT )

\* the drone rests on the last point after the intent had been GoBackward
\* for a while (segment timestamps of both directions are set)
C23_Witness ==
    /\ intent = GO_FRONT
    /\ i_target = NumPoints - 1 /\ state = HOVERING /\ pending_event = UNDEF
    /\ prevTS_backward # undefined
    /\ Updated

\* C24: until the drone object is loaded every frame is a no-op: a frame that
\* finds drone_obj undefined changes no field at all, and while drone_obj is
\* undefined the FSM state, prev_state, target index, segment indices,
\* segment timestamps and segment duration still have their constructed
\* values, whatever frames ran and whatever inputs arrived.
C24_NotReadyFramesAreNoOps ==
    /\ [] ( ~drone_obj =>
              /\ state = HOVERING
              /\ prev_state = UNDEF
              /\ i_target = I_FIRST
              /\ i_start = undefined /\ i_end = undefined
              /\ i_lookat_start = undefined /\ i_lookat_end = undefined
              /\ prevTS_forward = undefined /\ prevTS_backward = undefined
              /\ elapsed_fw = undefined /\ elapsed_bw = undefined
              /\ duration = FPATH_SEGMENT_DURATION_MAX_MS )
    /\ [][ upd'.op = "not_ready" =>
              /\ ~drone_obj'
              /\ UNCHANGED << now, state, prev_state, pending_event,
                              prevTS_sampling, duration, drone_obj, position,
                              i_target, i_start, i_end, i_lookat_start,
                              i_lookat_end, prevTS_forward, prevTS_backward,
                              elapsed_fw, elapsed_bw, burst >> ]_vars

\* a frame has just run and returned at once, with an accepted GoForward
\* waiting in the slot since an earlier clock reading
C24_Witness ==
    /\ ~drone_obj
    /\ upd.op = "not_ready"
    /\ pending_event = GO_FRONT
    /\ now >= 1000
    /\ prevTS_sampling < now

\* C25: for every configured list of at least two waypoints the curve built
\* has 20 * waypoint_count + 1 points, the number the navigation and scroll
\* code uses as TOTAL_POINTS3D.
C25_CurvePointCount ==
    ( m_fpath.spline_points3D.defined /\ Len(FPATH_WPS) >= 2 )
    => /\ m_fpath.spline_points3D.length = 20 * Len(FPATH_WPS) + 1
       /\ m_fpath.spline_points3D.length = TOTAL_POINTS3D

\* C26: building the curve from fewer than two waypoints produces no curve.
C26_ShortListBuildsNoCurve ==
    ( m_fpath.waypoints.defined /\ Len(FPATH_WPS) < 2 )
    => ~m_fpath.spline_points3D.defined

\* C27: in every frame that moves the drone the scroll goal is
\* base + section when moving forward and base - section when moving
\* backward, with base = (target_index / TOTAL_POINTS3D) * height, the same
\* in both directions, and section = factor * PX_PER_SEGMENT.
C27_ScrollGoal ==
    Updated =>
      LET i == upd.post.i_target
          T == TOTAL_POINTS3D
          H == CONTAINER_HTML_HEIGHT_MAX_PX
      IN  /\ ( is_forward(upd.post) /\ ~target_is_last(upd.post) ) =>
                LET f == get_interpolation_FW(upd.post, now).i
                IN  SameNumber(goal_scroll,
                               [ n |-> i * H * f.d + f.n * PX_PER_SEGMENT * T,
                                 d |-> T * f.d ])
          /\ ( is_backward(upd.post) /\ ~target_is_first(upd.post) ) =>
                LET f == get_interpolation_BW(upd.post, now).i
                IN  SameNumber(goal_scroll,
                               [ n |-> i * H * f.d - f.n * PX_PER_SEGMENT * T,
                                 d |-> T * f.d ])

\* C28: the robot FSM starts in IDLE; a call of transit changes the state
\* only along a row of the table (IDLE -shoot_started-> LOADING_BULLET
\* -shoot_ended-> BULLET_TRAVELING -bullet_collided-> HIT or
\* -end_of_trajectory-> NO_HIT, HIT / NO_HIT -reset-> IDLE) and then returns
\* true; any other event makes it return false and leaves the state and the
\* three timer start stamps unchanged.  update_state changes the state along
\* the same rows only.
C28_RobotTransitions ==
    /\ ( now = 0 /\ r_call.op = "none" ) => fsm_robot.state = IDLE
    /\ r_call.op = "transit" =>
         LET Row == << r_call.pre.state, r_call.event, fsm_robot.state >>
             Listed ==
               { <<IDLE, SHOOT_STARTED, LOADING_BULLET>>,
                 <<LOADING_BULLET, SHOOT_ENDED, BULLET_TRAVELING>>,
                 <<BULLET_TRAVELING, BULLET_COLLIDED, HIT>>,
                 <<BULLET_TRAVELING, END_OF_TRAJECTORY, NO_HIT>>,
                 <<HIT, RESET, IDLE>>,
                 <<NO_HIT, RESET, IDLE>> }
         IN  IF \E row \in Listed : row[1] = Row[1] /\ row[2] = Row[2]
             THEN Row \in Listed /\ r_call.ret = TRUE
             ELSE /\ r_call.ret = FALSE
                  /\ fsm_robot = r_call.pre
    /\ r_call.op = "update_state" =>
         \/ fsm_robot.state = r_call.pre.state
         \/ << r_call.pre.state, fsm_robot.state >> \in
              { <<LOADING_BULLET, BULLET_TRAVELING>>,
                <<BULLET_TRAVELING, HIT>>, <<BULLET_TRAVELING, NO_HIT>>,
                <<HIT, IDLE>>, <<NO_HIT, IDLE>> }

\* shoot_started was sent while the bullet was loading, some time after the
\* timer was started: transit has just returned false
C28_Witness ==
    /\ r_call.op = "transit"
    /\ r_call.event = SHOOT_STARTED
    /\ r_call.pre.state = LOADING_BULLET
    /\ r_call.ret = FALSE
    /\ fsm_robot.loading_bullet_start # undefined
    /\ fsm_robot.loading_bullet_start < now

\* C29: with update_state called in every frame and time advancing, the
\* robot FSM does not stay in a state other than IDLE for ever: it leaves
\* LOADING_BULLET for BULLET_TRAVELING, leaves BULLET_TRAVELING for HIT or
\* NO_HIT and returns from HIT / NO_HIT to IDLE; a timer moves it on only
\* once its duration has passed, and a collision only before the travel
\* timer has expired.
C29_RobotReturnsToIdle ==
    /\ ( fsm_robot.state = LOADING_BULLET )
         ~> ( fsm_robot.state = BULLET_TRAVELING )
    /\ ( fsm_robot.state = BULLET_TRAVELING )
         ~> ( fsm_robot.state \in { HIT, NO_HIT } )
    /\ ( fsm_robot.state \in { HIT, NO_HIT } ) ~> ( fsm_robot.state = IDLE )
    /\ ( fsm_robot.state # IDLE ) ~> ( fsm_robot.state = IDLE )
    /\ [] ( ( r_call.op = "update_state" /\ fsm_robot.state # r_call.pre.state )
            => CASE r_call.pre.state = LOADING_BULLET ->
                      now - r_call.pre.loading_bullet_start
                        >= FSM_DURATION_LOADING_BULLET_MS
                 [] r_call.pre.state = BULLET_TRAVELING ->
                      ( fsm_robot.state = NO_HIT
                        <=> now - r_call.pre.bullet_traveling_start
                              >= FSM_DURATION_BULLET_TRAVELLING_MS )
                 [] OTHER ->
                      now - r_call.pre.reset_fsm_start >= FSM_DURATION_RESET_MS )

\* the travel timer has expired and the reset timer after it: update_state
\* has just returned the robot to IDLE after a shot that hit nothing
C29_Witness ==
    /\ r_call.op = "update_state"
    /\ r_call.pre.state = NO_HIT
    /\ fsm_robot.state = IDLE
    /\ now - r_call.pre.reset_fsm_start >= FSM_DURATION_RESET_MS
    /\ now >= FSM_DURATION_LOADING_BULLET_MS + FSM_DURATION_BULLET_TRAVELLING_MS
                + FSM_DURATION_RESET_MS

\* C30: a pending GoHover is never lost or overwritten and never overwrites
\* a user event: the frame that completes a segment raises it when the slot
\* is empty; until the next frame no input and no other step changes the
\* slot; and that next frame consumes it and ends in Hovering.
C30_GoHoverNeverLost ==
    /\ [] ( ( Updated /\ i_target # upd.post.i_target )
            => /\ upd.post.pending_event = UNDEF
               /\ pending_event = GO_HOVER
               /\ state # HOVERING )
    /\ [][ ( pending_event = GO_HOVER /\ upd'.op # "update_state" )
           => ( pending_event' = GO_HOVER /\ state' = state
                /\ i_target' = i_target ) ]_vars
    /\ [][ ( pending_event = GO_HOVER /\ upd'.op = "update_state" )
           => /\ upd'.pre.pending_event = GO_HOVER
              /\ upd'.post.ret = "true"
              /\ state' = HOVERING
              /\ pending_event' = UNDEF
              /\ i_target' = i_target ]_vars

\* a segment was completed, an input arrived before the next frame and was
\* refused, and that frame has just brought the FSM to Hovering
C30_Witness ==
    /\ Updated
    /\ upd.pre.pending_event = GO_HOVER
    /\ upd.burst # << >>
    /\ \A k \in 1..Len(upd.burst) : ~upd.burst[k].accepted
    /\ upd.pre.state = FORWARD
    /\ state = HOVERING
    /\ i_target = 1

\* C31 (safety form): the flight is never Forward towards a target that is
\* already the last point, nor Backward towards a target that is already the
\* first one, unless GoHover is pending
C31_NeverStuckAtAnEnd ==
    /\ (state = FORWARD /\ i_target = I_LAST) => pending_event = GO_HOVER
    /\ (state = BACKWARD /\ i_target = I_FIRST) => pending_event = GO_HOVER

\* C31: once the user stops turning the wheel, a flight in Forward or
\* Backward ends in Hovering; and the flight is never Forward towards a target
\* that is already the last point, nor Backward towards a target that is
\* already the first one, unless GoHover is pending
C31_NoStuckMotion ==
    /\ (state # HOVERING) ~> (state = HOVERING)
    /\ [] C31_NeverStuckAtAnEnd

\* a Backward flight has just completed its segment into the first point
C31_Witness ==
    /\ Updated
    /\ state = BACKWARD /\ i_target = I_FIRST /\ pending_event = GO_HOVER
    /\ now > QuietWindow

\* a frame that has interpolated the position and the look-at point: the
\* flight is Forward or Backward after update_state and its segment is not
\* completed in this frame
ReadsCurve ==
    /\ Updated
    /\ state # HOVERING
    /\ pending_event # GO_HOVER

\* the indices of a point of the curve
CurveIndices == I_FIRST .. I_LAST

\* C32: in every frame that interpolates on the curve the segment and the
\* look-ahead indices are defined and within [0, last_index]
C32_IndicesWithinCurve ==
    ReadsCurve =>
        /\ i_start \in CurveIndices
        /\ i_end \in CurveIndices
        /\ i_lookat_start \in CurveIndices
        /\ i_lookat_end \in CurveIndices

\* a frame interpolates right after the reversal inside the last segment: the
\* segment starts at the last point and the look-ahead end would pass the
\* first clamp
C32_Witness ==
    /\ ReadsCurve
    /\ state = BACKWARD /\ upd.pre.state = FORWARD
    /\ i_start = I_LAST

\* C33: whenever the scroll smoothing of a Hovering frame runs, the goal it
\* interpolates towards has been set by an earlier Forward or Backward frame,
\* so the page is never scrolled to NaN
C33_HoverScrollGoalDefined ==
    (Updated /\ is_hovering(upd.post)) => upd.scroll_y # NaN

\* the last step was a frame of the robot FSM that found it in
\* BULLET_TRAVELING
TravelFrame ==
    r_call.op = "update_state" /\ r_call.pre.state = BULLET_TRAVELING

\* the travel timer of that frame has expired
TravelExpired ==
    now - r_call.pre.bullet_traveling_start >= FSM_DURATION_BULLET_TRAVELLING_MS

\* C38: in BULLET_TRAVELING the travel timer has priority over the collision:
\* a frame in which the timer has expired ends in NO_HIT whatever
\* bullet_collided() would report, a frame in which it has not ends in HIT
\* exactly when bullet_collided() reports a collision; and once HIT or NO_HIT
\* is entered the other one is not entered in the same shot: the next state
\* is IDLE
C38_TravelTimerHasPriority ==
    /\ [] ( TravelFrame =>
              /\ r_call.pre.bullet_traveling_start # undefined
              /\ TravelExpired => fsm_robot.state = NO_HIT
              /\ ( ~TravelExpired /\ r_call.bullet_collided )
                   => fsm_robot.state = HIT
              /\ ( ~TravelExpired /\ ~r_call.bullet_collided )
                   => fsm_robot.state = BULLET_TRAVELING )
    /\ [][ fsm_robot.state \in { HIT, NO_HIT }
             => fsm_robot'.state \in { fsm_robot.state, IDLE } ]_vars

\* a frame in which the timer has expired and the bullet collides
C38_Witness ==
    /\ TravelFrame
    /\ TravelExpired
    /\ r_call.bullet_collided
    /\ fsm_robot.state = NO_HIT

\* C39: in every reachable state of the robot FSM the start stamp of the
\* timer of the current state is defined (and not in the future), and the
\* stamp of the timer of the state just left is cleared: no stamp is set in
\* IDLE, and in each other state only its own
C39_RobotTimerStamps ==
    LET defined(ts) == ts # undefined /\ ts >= 0 /\ ts <= now
        loading == fsm_robot.loading_bullet_start
        traveling == fsm_robot.bullet_traveling_start
        reset == fsm_robot.reset_fsm_start
    IN  CASE fsm_robot.state = IDLE ->
               loading = undefined /\ traveling = undefined /\ reset = undefined
          [] fsm_robot.state = LOADING_BULLET ->
               defined(loading) /\ traveling = undefined /\ reset = undefined
          [] fsm_robot.state = BULLET_TRAVELING ->
               loading = undefined /\ defined(traveling) /\ reset = undefined
          [] OTHER ->
               loading = undefined /\ traveling = undefined /\ defined(reset)

\* the reset timer has just returned the robot to IDLE after a shot
C39_Witness ==
    /\ r_call.op = "update_state"
    /\ r_call.pre.state \in { HIT, NO_HIT }
    /\ r_call.pre.reset_fsm_start # undefined
    /\ fsm_robot.state = IDLE
    /\ fsm_robot.reset_fsm_start = undefined

\* the steps of the cycle of the arcade screen with the callback of each
ScreenCycle ==
    { <<SHOWING, DISPOSE_START, DISPOSING, "on_showing_to_disposing">>,
      <<DISPOSING, DISPOSE_END, DISPOSED, "on_disposing_to_disposed">>,
      <<DISPOSED, LOAD_START, LOADING, "on_disposed_to_loading">>,
      <<LOADING, LOAD_END, LOADED, "on_loading_to_loaded">>,
      <<LOADED, SHOW, SHOWING, "on_loaded_to_showing">> }

\* the last call handed an event to the screen FSM: transit called with it,
\* or update_state consuming it
ScreenEventHandled ==
    \/ s_call.op = "transit"
    \/ s_call.op = "update_state" /\ s_call.event # UNDEF

\* C34: the screen FSM starts in SHOWING; its state changes only along the
\* cycle SHOWING, DISPOSING, DISPOSED, LOADING, LOADED, SHOWING; a step of
\* the cycle that is accepted invokes the callback of that step, once, and
\* any other event leaves the state as it was and invokes no callback
C34_ScreenCycleWithCallbacks ==
    /\ screen_fsm.state = SHOWING
    /\ [][ screen_fsm'.state # screen_fsm.state
             => \E step \in ScreenCycle :
                  step[1] = screen_fsm.state /\ step[3] = screen_fsm'.state ]_vars
    /\ [] ( ScreenEventHandled =>
              LET steps == { step \in ScreenCycle :
                               /\ step[1] = s_call.pre.state
                               /\ step[2] = s_call.event }
              IN  IF steps = {}
                  THEN /\ screen_fsm.state = s_call.pre.state
                       /\ s_call.cbs = << >>
                  ELSE \A step \in steps :
                         /\ screen_fsm.state = step[3]
                         /\ s_call.cbs = << step[4] >> )

\* the URL the frame that has just run wanted to show
WantedUrl == get_current_image_url(pictures, d_call.wp_index)

C36_OffShowsTemplate ==
    ~m_display.is_on => m_display.map = URL_DISPLAY_TEMPLATE_TEXTURE

\* C37: for every waypoint pic_index stays within [0, paths.length - 1], and
\* set_next_image_index followed by set_prev_image_index for the same
\* waypoint restores pic_index whenever it started below paths.length - 1,
\* index 0 included
C37_NextThenPrevRestores ==
    /\ \A wp_index \in WpIndices :
         pictures[wp_index] >= 0 /\ pictures[wp_index] <= NumPaths - 1
    /\ ( d_call.op = "set_prev" /\ d_call.after_next
         /\ d_call.origin < NumPaths - 1 )
         => pictures[d_call.wp_index] = d_call.origin

====
